---- MODULE Spec2Model ----
(***************************************************************************)
(* AutoBuf: a schema-driven codec generator.  The module models            *)
(*   - the primitive codec the generator emits (BufWrapper.ts: varint,     *)
(*     fixed-width integers, strings, raw bytes, UUID, blob),              *)
(*   - the schema validator (Types.ts),                                    *)
(*   - the codec synthesizer (genWriteCode / genReadCode) and the          *)
(*     generated packet classes and registries that run its programs.      *)
(*                                                                         *)
(* JavaScript numbers wider than 31 bits are kept as two limbs             *)
(* [hi, lo] with value hi * 2^28 + lo and 0 <= lo < 2^28 (hi carries the   *)
(* sign, floor representation), because the checker's integers are 32 bit. *)
(***************************************************************************)
EXTENDS Integers, Sequences, FiniteSets, TLC

VARIABLES
  pc,     \* where the running scenario stands
  arg,    \* the caller's input of the scenario (what is written / validated)
  bw,     \* the BufWrapper instance: buffer, offset, buffers, oneConcat
  ret,    \* outcome of the last call: [op, err, value, ...]
  loc     \* locals of a readString call in progress: [length, value]

vars == <<pc, arg, bw, ret, loc>>

----------------------------------------------------------------------------
(* Bounds of the model *)

\* raw input buffers hold every byte sequence over RawBytes up to this length
MaxRawLen == 4
\* strings handed to writeString have at most this many code points
MaxStrLen == 2
\* primitive reads made in a row on one wrapped buffer
MaxReads == 2
\* passes of readString's loop that are followed (a read that ends makes at
\* most one pass per character and one more)
MaxPasses == 4

----------------------------------------------------------------------------
(* Numbers *)

P7 == 128
P8 == 256
P14 == 16384
P16 == 65536
P21 == 2097152
P24 == 16777216
P25 == 33554432
P28 == 268435456

None == [k |-> "none"]

Num(h, l) == [hi |-> h, lo |-> l]
\* the limbs of a small integer
NumOf(i) == Num(i \div P28, i % P28)
\* a limb number as an integer, saturating at Huge (far beyond any buffer)
Huge == 2 * P28
IntOf(n) == IF n.hi >= 2 THEN Huge ELSE IF n.hi < -2 THEN -Huge ELSE n.hi * P28 + n.lo
SatAdd(a, b) == IF a + b > Huge THEN Huge ELSE a + b

Min(a, b) == IF a < b THEN a ELSE b
Max(a, b) == IF a > b THEN a ELSE b

RECURSIVE Pow128(_)
Pow128(k) == IF k = 0 THEN 1 ELSE P7 * Pow128(k - 1)

RECURSIVE Flatten(_)
Flatten(ss) == IF ss = <<>> THEN <<>> ELSE Head(ss) \o Flatten(Tail(ss))

RECURSIVE SeqsUpTo(_, _)
SeqsUpTo(S, n) ==
  IF n = 0 THEN {<<>>}
  ELSE LET longer(shorter) ==
             shorter \cup {Append(s, x) : s \in {t \in shorter : Len(t) = n - 1}, x \in S}
       IN longer(SeqsUpTo(S, n - 1))

Repeat(b, n) == [i \in 1..n |-> b]

----------------------------------------------------------------------------
(* encodeVarint / decodeVarint *)

\* Number.MAX_SAFE_INTEGER = 2^53 - 1: num > MAX_SAFE_INTEGER iff hi >= 2^25
GtMaxSafe(num) == num.hi >= P25
\* num >= INT, INT = 2^31
GeINT(num) == num.hi >= 8
\* ToInt32(num): the low 32 bits, signed
ToInt32(num) == LET h == num.hi % 16 IN (IF h >= 8 THEN h - 16 ELSE h) * P28 + num.lo
\* (num & 0xff) | MSB
Low8OrMSB(num) == LET b == num.lo % P8 IN IF b >= P7 THEN b ELSE b + P7
\* num & MSBALL, MSBALL = ~0x7f
AndMSBALL(num) == ToInt32(num) - (ToInt32(num) % P7)
Div128_Truncating(num) == Num(0, (num.hi % 16) * P21 + (num.lo \div P7))
\* num /= 128 (the fraction a float keeps is never read: every later use
\* truncates, and num >= INT compares with an integer)
Div128(num) == Num(num.hi \div P7, (num.lo \div P7) + (num.hi % P7) * P21)
\* num >>>= 7: ToUint32(num) >> 7
Ushr7(num) == Num(0, (num.hi % 16) * P21 + (num.lo \div P7))

RECURSIVE encodeLoop2(_, _)
encodeLoop2(num, out) ==
  IF AndMSBALL(num) # 0
  THEN encodeLoop2(Ushr7(num), Append(out, Low8OrMSB(num)))
  ELSE Append(out, ToInt32(num))

RECURSIVE encodeLoop1(_, _)
encodeLoop1(num, out) ==
  IF GeINT(num)
  THEN encodeLoop1(Div128(num), Append(out, Low8OrMSB(num)))
  ELSE encodeLoop2(num, out)

encodeVarint(num) ==
  IF GtMaxSafe(num) THEN [err |-> "RangeError"]
  ELSE [err |-> "none", out |-> encodeLoop1(num, <<>>)]

\* buf[i]: undefined outside the buffer
Undefined == -1
At(buf, i) == IF i >= 0 /\ i < Len(buf) THEN buf[i + 1] ELSE Undefined
\* b & REST (undefined & 0x7f is 0)
AndREST(b) == IF b = Undefined THEN 0 ELSE b % P7
\* b < MSB (undefined < 0x80 is false)
LtMSB_UndefinedIsLess(b) == b < P7
LtMSB(b) == b # Undefined /\ b < P7
\* res += (b & REST) << 7k for k < 4, (b & REST) * 2^(7k) after
AddGroup(res, k, g) ==
  IF k < 4 THEN Num(res.hi, res.lo + g * Pow128(k))
  ELSE Num(res.hi + g * Pow128(k - 4), res.lo)

\* the byte cap of decodeVarint: the unrolled reads stop after offset + 7
VarintCap == 8

RECURSIVE decodeVarintFrom(_, _, _, _)
decodeVarintFrom(buf, offset, k, res) ==
  LET with(b, r) ==
        IF LtMSB(b) THEN [err |-> "none", value |-> r, bytes |-> k + 1]
        ELSE decodeVarintFrom(buf, offset, k + 1, r)
      read(b) == with(b, AddGroup(res, k, AndREST(b)))
  IN IF k = VarintCap THEN [err |-> "RangeError"] ELSE read(At(buf, offset + k))

decodeVarint(buf, offset) == decodeVarintFrom(buf, offset, 0, Num(0, 0))

\* the earlier decodeVarint: a do-while over counter and shift
RECURSIVE decodeVarintLoop(_, _, _, _)
decodeVarintLoop(buf, offset, counter, res) ==
  LET shift == 7 * (counter - offset)
      with(b, r) ==
        IF b >= P7 THEN decodeVarintLoop(buf, offset, counter + 1, r)
        ELSE [err |-> "none", value |-> r, bytes |-> counter + 1 - offset]
      read(b) == with(b, AddGroup(res, counter - offset, AndREST(b)))
  IN IF counter >= Len(buf) \/ shift > 49 THEN [err |-> "RangeError"]
     ELSE read(At(buf, counter))

decodeVarint_index(buf, offset) == decodeVarintLoop(buf, offset, offset, Num(0, 0))

----------------------------------------------------------------------------
(* Strings.  A string is a sequence of characters and a character is the   *)
(* tuple of its UTF-8 bytes, so that Buffer.from(value) and                *)
(* buffer.toString('utf8', ...) are computed on bytes.                     *)

CharA == <<97>>                        \* "a", 1 byte
CharEAcute == <<195, 169>>             \* U+00E9, 2 bytes
CharEuro == <<226, 130, 172>>          \* U+20AC, 3 bytes
CharGrin == <<240, 159, 152, 128>>     \* U+1F600, 4 bytes, 2 UTF-16 units
Replacement == <<239, 191, 189>>       \* U+FFFD, what a decoder puts for bad input

\* UTF-16 code units of one character
Units(c) == IF Len(c) = 4 THEN 2 ELSE 1
\* value.length of a JavaScript string: UTF-16 code units
RECURSIVE StrLength(_)
StrLength(s) == IF s = <<>> THEN 0 ELSE Units(Head(s)) + StrLength(Tail(s))
\* Buffer.from(value): the UTF-8 bytes
Utf8Bytes(s) == Flatten(s)
\* Buffer.byteLength(value)
ByteLength(s) == Len(Flatten(s))

IsCont(b) == b >= 128 /\ b <= 191
\* bytes a lead byte announces (0: not a lead byte)
SeqLen(b0) ==
  IF b0 < 128 THEN 1
  ELSE IF b0 >= 194 /\ b0 <= 223 THEN 2
  ELSE IF b0 >= 224 /\ b0 <= 239 THEN 3
  ELSE IF b0 >= 240 /\ b0 <= 244 THEN 4
  ELSE 0
\* continuation bytes that follow position 1, at most n
RECURSIVE ContRun(_, _)
ContRun(bytes, n) ==
  IF n = 0 \/ Len(bytes) < 2 \/ ~IsCont(bytes[2]) THEN 0
  ELSE 1 + ContRun(Tail(bytes), n - 1)

\* UTF-8 decoding with U+FFFD for every ill-formed maximal subpart
RECURSIVE Utf8Decode(_)
Utf8Decode(bytes) ==
  LET with(need, k) ==
        IF need # 0 /\ k = need - 1
        THEN <<SubSeq(bytes, 1, need)>> \o Utf8Decode(SubSeq(bytes, need + 1, Len(bytes)))
        ELSE <<Replacement>> \o Utf8Decode(SubSeq(bytes, k + 2, Len(bytes)))
      lead(need) == with(need, IF need = 0 THEN 0 ELSE ContRun(bytes, need - 1))
  IN IF bytes = <<>> THEN <<>> ELSE lead(SeqLen(bytes[1]))

\* buffer.toString('utf8', start, end): start and end are clamped to the buffer
toStringUtf8(buffer, start, end) ==
  LET between(s, e) ==
        IF s >= Len(buffer) \/ e <= s THEN <<>> ELSE Utf8Decode(SubSeq(buffer, s + 1, e))
  IN between(Max(start, 0), Min(end, Len(buffer)))

\* buffer.slice(start, end): negative indices count from the end, all clamped
slice(buffer, start, end) ==
  LET between(s, e) == IF e <= s THEN <<>> ELSE SubSeq(buffer, s + 1, e)
      clamped(index, n) == IF index < 0 THEN Max(n + index, 0) ELSE Min(index, n)
  IN between(clamped(start, Len(buffer)), clamped(end, Len(buffer)))

----------------------------------------------------------------------------
(* class BufWrapper *)

BufWrapper(buffer, oneConcat) ==
  [buffer |-> buffer, offset |-> 0, buffers |-> <<>>, oneConcat |-> oneConcat]

\* what a method call leaves: the wrapper, the error thrown ("none": returned)
\* and the value returned
R(w, err, value) == [bw |-> w, err |-> err, value |-> value]
Throw(w, err) == R(w, err, None)

writeToBuffer(w, bytes) ==
  IF w.oneConcat THEN [w EXCEPT !.buffers = Append(@, bytes)]
  ELSE [w EXCEPT !.buffer = @ \o bytes]

finish(w) ==
  IF ~w.oneConcat THEN Throw(w, "Error")
  ELSE R([w EXCEPT !.buffer = Flatten(w.buffers)], "none", Flatten(w.buffers))

writeVarInt(w, value) ==
  LET write(encoded) ==
        IF encoded.err # "none" THEN Throw(w, encoded.err)
        ELSE R(writeToBuffer(w, encoded.out), "none", None)
  IN write(encodeVarint(value))

readVarInt(w) ==
  LET read(data) ==
        IF data.err # "none" THEN Throw(w, data.err)
        ELSE R([w EXCEPT !.offset = @ + data.bytes], "none", data.value)
  IN read(decodeVarint(w.buffer, w.offset))

\* BufWrapper.readVarInt over the earlier decodeVarint
readVarInt_index(w) ==
  LET read(data) ==
        IF data.err # "none" THEN Throw(w, data.err)
        ELSE R([w EXCEPT !.offset = @ + data.bytes], "none", data.value)
  IN read(decodeVarint_index(w.buffer, w.offset))

\* writeString: the prefix is value.length, the payload Buffer.from(value)
writeString(w, value) ==
  LET payload(r) ==
        IF r.err # "none" THEN r
        ELSE R(writeToBuffer(r.bw, Utf8Bytes(value)), "none", None)
  IN payload(writeVarInt(w, NumOf(StrLength(value))))

\* readString, up to its loop: let length = this.readVarInt(); let value = ''
readStringEnter(w) ==
  LET enter(r) ==
        IF r.err # "none" THEN [bw |-> w, err |-> r.err, loc |-> None]
        ELSE [bw |-> r.bw, err |-> "none",
              loc |-> [length |-> IntOf(r.value), value |-> <<>>, passes |-> 0]]
  IN enter(readVarInt(w))

\* one pass of while (length > 0) { ... }
readStringIter(w, l) ==
  LET pass(next) ==
        [bw |-> [w EXCEPT !.offset = SatAdd(@, l.length)],
         loc |-> [l EXCEPT !.length = @ - StrLength(next), !.value = @ \o next,
                           !.passes = @ + 1]]
  IN pass(toStringUtf8(w.buffer, w.offset, SatAdd(w.offset, l.length)))

\* the whole loop; "hang" when it cannot end: with the offset at or past the
\* end of the buffer, next is '' and length stays positive in every later pass
RECURSIVE readStringLoop(_, _)
readStringLoop(w, l) ==
  LET after(n) == readStringLoop(n.bw, n.loc)
  IN IF l.length <= 0 THEN R(w, "none", l.value)
     ELSE IF w.offset >= Len(w.buffer) THEN Throw(w, "hang")
     ELSE after(readStringIter(w, l))

readString(w) ==
  LET loop(e) == IF e.err # "none" THEN Throw(w, e.err) ELSE readStringLoop(e.bw, e.loc)
  IN loop(readStringEnter(w))

\* big-endian bytes of the low 16 and low 32 bits of an integer
Bytes16(v) == <<(v \div P8) % P8, v % P8>>
Bytes32(v) == <<(v \div P24) % P8, (v \div P16) % P8, (v \div P8) % P8, v % P8>>
\* buffer.readUInt16BE / readInt16BE / readInt32BE at a position inside the buffer
UInt16At(buffer, o) == buffer[o + 1] * P8 + buffer[o + 2]
Int16At(buffer, o) == LET u == UInt16At(buffer, o) IN IF u >= 32768 THEN u - P16 ELSE u
Int32At(buffer, o) ==
  LET b0 == buffer[o + 1]
  IN (IF b0 >= P7 THEN b0 - P8 ELSE b0) * P24
     + buffer[o + 2] * P16 + buffer[o + 3] * P8 + buffer[o + 4]
\* a fixed-width read of n bytes throws unless 0 <= offset and offset + n <= length
InBounds(w, n) == w.offset >= 0 /\ w.offset + n <= Len(w.buffer)

\* buf.writeInt32BE(value): every integer of the model is within its range
writeInt(w, value) == R(writeToBuffer(w, Bytes32(value)), "none", None)

readInt(w) ==
  IF ~InBounds(w, 4) THEN Throw(w, "ERR_OUT_OF_RANGE")
  ELSE R([w EXCEPT !.offset = @ + 4], "none", Int32At(w.buffer, w.offset))

\* buf.writeBigInt64BE(BigInt(value)): the 64-bit two's complement of hi * 2^28 + lo
Bytes64(num) ==
  <<(num.hi \div P28) % P8, (num.hi \div (16 * P16)) % P8,
    (num.hi \div (16 * P8)) % P8, (num.hi \div 16) % P8,
    (num.lo \div P24) + (num.hi % 16) * 16,
    (num.lo \div P16) % P8, (num.lo \div P8) % P8, num.lo % P8>>

writeLong(w, value) == R(writeToBuffer(w, Bytes64(value)), "none", None)

\* Number(buffer.readBigInt64BE(offset)): exact for |v| < 2^53, where the top
\* byte is pure sign; a wider value is rounded by Number() and is kept here as
\* its eight bytes
Int64At(buffer, o) ==
  LET b == SubSeq(buffer, o + 1, o + 8)
      mid == b[2] * (16 * P16) + b[3] * (16 * P8) + b[4] * 16 + (b[5] \div 16)
      lo == (b[5] % 16) * P24 + b[6] * P16 + b[7] * P8 + b[8]
  IN IF b[1] = 0 /\ mid < P25 THEN Num(mid, lo)
     ELSE IF b[1] = 255 /\ mid >= P28 - P25 THEN Num(mid - P28, lo)
     ELSE [k |-> "rounded", bytes |-> b]

readLong(w) ==
  IF ~InBounds(w, 8) THEN Throw(w, "ERR_OUT_OF_RANGE")
  ELSE R([w EXCEPT !.offset = @ + 8], "none", Int64At(w.buffer, w.offset))

\* buf.writeUInt16BE(value) accepts 0 .. 65535
writeShort(w, value) ==
  IF value < 0 \/ value > 65535 THEN Throw(w, "ERR_OUT_OF_RANGE")
  ELSE R(writeToBuffer(w, Bytes16(value)), "none", None)

\* buffer.readInt16BE(offset)
readShort(w) ==
  IF ~InBounds(w, 2) THEN Throw(w, "ERR_OUT_OF_RANGE")
  ELSE R([w EXCEPT !.offset = @ + 2], "none", Int16At(w.buffer, w.offset))

writeBoolean(w, value) == R(writeToBuffer(w, <<IF value THEN 1 ELSE 0>>), "none", None)

readBoolean(w) ==
  IF ~InBounds(w, 1) THEN Throw(w, "ERR_OUT_OF_RANGE")
  ELSE R([w EXCEPT !.offset = @ + 1], "none", w.buffer[w.offset + 1] = 1)

\* readFloatBE / readDoubleBE: the value is kept as the bytes that hold it
readFloat(w) ==
  IF ~InBounds(w, 4) THEN Throw(w, "ERR_OUT_OF_RANGE")
  ELSE R([w EXCEPT !.offset = @ + 4], "none",
         [k |-> "float", bytes |-> SubSeq(w.buffer, w.offset + 1, w.offset + 4)])

readDouble(w) ==
  IF ~InBounds(w, 8) THEN Throw(w, "ERR_OUT_OF_RANGE")
  ELSE R([w EXCEPT !.offset = @ + 8], "none",
         [k |-> "double", bytes |-> SubSeq(w.buffer, w.offset + 1, w.offset + 8)])

\* writeBytes(value): Buffer.from(value)
writeBytes(w, value) == R(writeToBuffer(w, value), "none", None)

\* readBytes(length): slice never throws, and the offset moves by length
readBytes(w, length) ==
  R([w EXCEPT !.offset = SatAdd(@, length)], "none",
    slice(w.buffer, w.offset, SatAdd(w.offset, length)))

\* a UUID in text is the hex of its bytes; writeUUID strips the dashes and
\* Buffer.from(hex, 'hex') gives the bytes back
writeUUID(w, uuid) == writeBytes(w, uuid.bytes)

\* readUUID: readBytes(16).toString('hex'), then dashes between the hex groups
readUUID(w, dashes) ==
  LET hex(r) == R(r.bw, "none", [bytes |-> r.value, dashes |-> dashes])
  IN hex(readBytes(w, 16))

writeBlob(w, data) ==
  LET payload(r) == IF r.err # "none" THEN r ELSE writeBytes(r.bw, data)
  IN payload(writeShort(w, Len(data)))

readBlob(w) ==
  LET payload(r) == IF r.err # "none" THEN Throw(w, r.err) ELSE readBytes(r.bw, r.value)
  IN payload(readShort(w))

----------------------------------------------------------------------------
(* The primitive codec at work.  Two scenarios:                            *)
(*  - a caller writes one value with a fresh BufWrapper (with or without   *)
(*    oneConcat), finishes it, and reads the value back;                   *)
(*  - a caller wraps received bytes and makes primitive reads.             *)

VarIntInputs ==
  {Num(h, l) : h \in {0, 1, 7, 8, 127, 128, P14, P21, P25 - 1},
               l \in {0, 1, 127, 128, P14 - 1, P14, P21 - 1, P21, P28 - 1}}
  \cup {Num(P25, 0), Num(P25, 1), Num(P25 + 5, 77)}
  \cup {NumOf(-1), NumOf(-128), Num(-P25, 1), Num(-P25, 0), Num(-P25 - 1, 6)}
Chars == {CharA, CharEAcute, CharEuro, CharGrin}
StringInputs == SeqsUpTo(Chars, MaxStrLen)
IntInputs == {-2147483647 - 1, -P16, -1, 0, 1, 255, 256, P16 - 1, P16, 2147483647}
LongInputs ==
  {Num(0, 0), Num(0, 1), NumOf(123456789), NumOf(-1), Num(1, 0), Num(P25 - 1, P28 - 1),
   Num(-1, 0), Num(-P25, 1), Num(-P25, 0), Num(15, P28 - 1), Num(16, 0)}
ShortInputs == {-1, 0, 1, 255, 256, 32767, 32768, 40000, 65535, 65536}
BlobInputs == {Repeat(7, n) : n \in {0, 1, 3, 32767, 32768, 65535, 65536}}
UUIDInputs == {[bytes |-> Repeat(171, 16)]}

WriteKinds == {"varInt", "string", "int", "long", "short", "boolean", "blob", "uuid"}
WriteInputs(kind) ==
  CASE kind = "varInt" -> VarIntInputs
    [] kind = "string" -> StringInputs
    [] kind = "int" -> IntInputs
    [] kind = "long" -> LongInputs
    [] kind = "short" -> ShortInputs
    [] kind = "boolean" -> BOOLEAN
    [] kind = "blob" -> BlobInputs
    [] kind = "uuid" -> UUIDInputs

RawBytes == {1, 128}
RawBuffers ==
  SeqsUpTo(RawBytes, MaxRawLen)
  \cup {Repeat(128, 7) \o <<1>>, Repeat(128, 8), Repeat(128, 8) \o <<1>>,
        Repeat(255, 7) \o <<15>>, Repeat(255, 7) \o <<127>>,
        <<1, 195>>, <<2, 97>>, <<0, 3, 1, 2>>, <<255, 255, 9>>,
        Repeat(171, 15), Repeat(171, 16), Repeat(171, 17)}
ReadKinds ==
  {"varInt", "varInt_index", "int", "long", "short", "float", "double", "boolean",
   "string", "bytes", "uuid", "blob"}
\* the length argument of readBytes
ReadLengths == {0, 1, 2, 5}

\* this.buf.write<Kind>(value)
WriteOp(kind, w, value) ==
  CASE kind = "varInt" -> writeVarInt(w, value)
    [] kind = "string" -> writeString(w, value)
    [] kind = "int" -> writeInt(w, value)
    [] kind = "long" -> writeLong(w, value)
    [] kind = "short" -> writeShort(w, value)
    [] kind = "boolean" -> writeBoolean(w, value)
    [] kind = "blob" -> writeBlob(w, value)
    [] kind = "uuid" -> writeUUID(w, value)

\* this.buf.read<Kind>(), for the kinds that return at once
ReadOp(kind, w, length) ==
  CASE kind = "varInt" -> readVarInt(w)
    [] kind = "varInt_index" -> readVarInt_index(w)
    [] kind = "int" -> readInt(w)
    [] kind = "long" -> readLong(w)
    [] kind = "short" -> readShort(w)
    [] kind = "float" -> readFloat(w)
    [] kind = "double" -> readDouble(w)
    [] kind = "boolean" -> readBoolean(w)
    [] kind = "bytes" -> readBytes(w, length)
    [] kind = "uuid" -> readUUID(w, TRUE)
    [] kind = "blob" -> readBlob(w)

NoCall == [op |-> "none", kind |-> "none", err |-> "none", value |-> None, from |-> 0, n |-> 0]
Called(op, kind, r, from, n) ==
  [op |-> op, kind |-> kind, err |-> r.err, value |-> r.value, from |-> from, n |-> n]

InitPrim ==
  /\ \/ /\ pc = "new"
        /\ \E kind \in WriteKinds : \E value \in WriteInputs(kind) :
             arg = [kind |-> kind, value |-> value]
        /\ \E oneConcat \in BOOLEAN : bw = BufWrapper(<<>>, oneConcat)
     \/ /\ pc = "wrapped"
        /\ arg = None
        /\ \E data \in RawBuffers : bw = BufWrapper(data, FALSE)
  /\ ret = NoCall
  /\ loc = None

\* buf.write<Kind>(value) on the fresh wrapper
Write ==
  /\ pc = "new"
  /\ LET r == WriteOp(arg.kind, bw, arg.value)
     IN /\ bw' = r.bw
        /\ ret' = Called("write", arg.kind, r, bw.offset, 0)
        /\ pc' = IF r.err = "none" THEN "written" ELSE "failed"
  /\ UNCHANGED <<arg, loc>>

\* buf.finish() of a oneConcat wrapper
Finish ==
  /\ pc = "written"
  /\ bw.oneConcat
  /\ bw' = finish(bw).bw
  /\ pc' = "wrapped"
  /\ UNCHANGED <<arg, ret, loc>>

\* the wrapper holds the bytes to read: received ones, or the ones just written
Readable ==
  /\ pc = "wrapped" \/ (pc = "written" /\ ~bw.oneConcat)
  /\ ret.n < MaxReads
\* what was written is read back with the read of its kind
KindToRead(kind) ==
  IF arg = None THEN kind \in ReadKinds
  ELSE kind = arg.kind \/ (arg.kind = "varInt" /\ kind = "varInt_index")

\* buf.read<Kind>() for every kind but string
Read(kind, length) ==
  /\ Readable
  /\ KindToRead(kind)
  /\ kind # "string"
  \* the earlier BufWrapper has no readBlob, the one read that can leave the
  \* offset below 0
  /\ kind = "varInt_index" => bw.offset >= 0
  /\ LET r == ReadOp(kind, bw, length)
     IN /\ bw' = r.bw
        /\ ret' = Called("read", kind, r, bw.offset, ret.n + 1)
  /\ pc' = "wrapped"
  /\ UNCHANGED <<arg, loc>>

\* buf.readString() up to its loop
ReadStringEnter ==
  /\ Readable
  /\ KindToRead("string")
  /\ LET e == readStringEnter(bw)
     IN /\ bw' = e.bw
        /\ IF e.err # "none"
           THEN /\ ret' = Called("read", "string", Throw(bw, e.err), bw.offset, ret.n + 1)
                /\ loc' = None
                /\ pc' = "wrapped"
           ELSE /\ ret' = ret
                /\ loc' = [length |-> e.loc.length, value |-> e.loc.value,
                           passes |-> e.loc.passes, from |-> bw.offset]
                /\ pc' = "readString"
  /\ UNCHANGED arg

\* one pass of the loop of readString
ReadStringIter ==
  /\ pc = "readString"
  /\ loc.length > 0
  /\ loc.passes < MaxPasses
  /\ LET n == readStringIter(bw, loc)
     IN bw' = n.bw /\ loc' = n.loc
  /\ UNCHANGED <<pc, arg, ret>>

\* the loop of readString ends: return value
ReadStringReturn ==
  /\ pc = "readString"
  /\ loc.length <= 0
  /\ pc' = "wrapped"
  /\ ret' = Called("read", "string", R(bw, "none", loc.value), loc.from, ret.n + 1)
  /\ loc' = None
  /\ UNCHANGED <<arg, bw>>

NextPrim ==
  \/ Write
  \/ Finish
  \/ \E kind \in ReadKinds, length \in ReadLengths : Read(kind, length)
  \/ ReadStringEnter
  \/ ReadStringIter
  \/ ReadStringReturn

SpecPrim == InitPrim /\ [][NextPrim]_vars

----------------------------------------------------------------------------
(* Claims on the primitive codec (SpecPrim) *)

VarIntKinds == {"varInt", "varInt_index"}
\* the first read made on the wrapper of a write scenario has returned or thrown
Returned(op) == pc # "readString" /\ ret.op = op
ReadBack(kind) == arg # None /\ arg.kind = kind /\ Returned("read") /\ ret.n = 1

\* the 7-bit groups of hi * 2^28 + lo, least significant first
Groups(n) ==
  <<n.lo % P7, (n.lo \div P7) % P7, (n.lo \div P14) % P7, n.lo \div P21,
    n.hi % P7, (n.hi \div P7) % P7, (n.hi \div P14) % P7, n.hi \div P21>>
\* how many groups the number needs: up to its last non-zero one, at least one
GroupCount(n) ==
  LET used == {i \in 1..8 : Groups(n)[i] # 0}
  IN IF used = {} THEN 1 ELSE CHOOSE i \in used : \A j \in used : j <= i
\* the varint of the wire format: continuation bit on every byte but the last
Varint(n) ==
  [i \in 1..GroupCount(n) |-> IF i < GroupCount(n) THEN Groups(n)[i] + P7 ELSE Groups(n)[i]]
InVarintRange(n) == n.hi >= 0 /\ n.hi < P25

\* C4: for 0 <= n < 2^53 the bytes written for n are its varint (7 payload bits
\* per byte, least significant group first, continuation bit on all but the
\* last byte), and decoding them returns n and consumes exactly those bytes.
C4_VarintRoundTrip ==
  (ReadBack("varInt") /\ InVarintRange(arg.value)) =>
    /\ bw.buffer = Varint(arg.value)
    /\ ret.err = "none"
    /\ ret.value = arg.value
    /\ bw.offset = Len(bw.buffer)

\* a number of more than 31 bits has made the round trip
C4_Witness ==
  /\ ReadBack("varInt")
  /\ arg.value.hi >= 8 /\ arg.value.hi < P25
  /\ ret.err = "none"
  /\ Len(bw.buffer) = 8

\* positions of the bytes with a clear continuation bit among the (at most) 8
\* bytes that start at from and lie inside the buffer
ClearWithin(buffer, from) ==
  {i \in Max(from, 0) .. Min(from + VarintCap - 1, Len(buffer) - 1) : buffer[i + 1] < P7}

\* C5: a varint read fails, and leaves the offset, when none of the at most 8
\* bytes between the offset and the end of the buffer has a clear continuation
\* bit; a read that returns has examined at most 8 bytes.
C5_VarintCap ==
  (Returned("read") /\ ret.kind \in VarIntKinds) =>
    IF ClearWithin(bw.buffer, ret.from) = {}
    THEN ret.err = "RangeError" /\ bw.offset = ret.from
    ELSE ret.err = "none" /\ bw.offset - ret.from <= VarintCap

\* eight continuation bytes and a ninth byte that would end the varint: refused
C5_Witness ==
  /\ Returned("read") /\ ret.kind = "varInt" /\ ret.from = 0
  /\ bw.buffer = Repeat(128, 8) \o <<1>>
  /\ ret.err = "RangeError"

\* the magnitude of the number exceeds 2^53 - 1
BeyondExact(n) == n.hi >= P25 \/ n.hi < -P25 \/ (n.hi = -P25 /\ n.lo = 0)

\* C6: writing a varint whose magnitude exceeds 2^53 - 1 throws and appends
\* nothing to the buffer.
C6_VarintWriteFailsFast ==
  (arg # None /\ arg.kind = "varInt" /\ BeyondExact(arg.value) /\ pc # "new") =>
    /\ ret.err # "none"
    /\ bw.buffer = <<>> /\ bw.buffers = <<>>

\* C7: a string written and read back is the same string, and the read
\* consumes exactly the bytes the write produced.
C7_StringRoundTrip ==
  ReadBack("string") =>
    /\ ret.err = "none"
    /\ ret.value = arg.value
    /\ bw.offset = Len(bw.buffer)

\* C8: int, long and short values that the write accepts are read back
\* unchanged, consuming exactly the bytes written; so is a blob, whose 2-byte
\* length prefix holds every length up to 65535.
C8_FixedWidthRoundTrip ==
  \A kind \in {"int", "long", "short", "blob"} :
    ReadBack(kind) =>
      /\ ret.err = "none"
      /\ ret.value = arg.value
      /\ bw.offset = Len(bw.buffer)

\* bytes between the offset a read started at and the end of the buffer
Remaining(buffer, from) == Len(buffer) - from
\* the bytes a read of the kind needs at the offset, by the wire format
\* (9: a varint that does not end within the buffer)
NeededVarint(buffer, from) ==
  IF ClearWithin(buffer, from) = {} THEN Remaining(buffer, from) + 1
  ELSE (CHOOSE i \in ClearWithin(buffer, from) :
          \A j \in ClearWithin(buffer, from) : i <= j) - from + 1
Needed(kind, buffer, from, length) ==
  CASE kind \in VarIntKinds -> NeededVarint(buffer, from)
    [] kind \in {"int", "float"} -> 4
    [] kind \in {"long", "double"} -> 8
    [] kind = "short" -> 2
    [] kind = "boolean" -> 1
    [] kind = "bytes" -> length
    [] kind = "uuid" -> 16
    [] kind = "blob" ->
         IF Remaining(buffer, from) < 2 THEN 2 ELSE 2 + UInt16At(buffer, from)
    [] kind = "string" ->
         IF ClearWithin(buffer, from) = {} THEN NeededVarint(buffer, from)
         ELSE SatAdd(NeededVarint(buffer, from), IntOf(decodeVarint(buffer, from).value))

\* C9: a primitive read that needs more bytes than remain between the cursor
\* and the end of the buffer throws instead of returning a value.
C9_ReadPastEndFails ==
  \A length \in ReadLengths :
    (/\ Returned("read")
     /\ ret.from >= 0 /\ ret.from <= Len(bw.buffer)
     /\ ret.kind = "bytes" => bw.offset = ret.from + length
     /\ Needed(ret.kind, bw.buffer, ret.from, length) > Remaining(bw.buffer, ret.from))
    => ret.err # "none"

\* readString on its own: a wrapper of received bytes with its offset anywhere
\* in the buffer or at its end, and calls of readString on it
InitString ==
  /\ pc = "wrapped"
  /\ arg = None
  /\ \E data \in RawBuffers : \E offset \in 0..Len(data) :
       bw = [BufWrapper(data, FALSE) EXCEPT !.offset = offset]
  /\ ret = NoCall
  /\ loc = None
NextString == ReadStringEnter \/ ReadStringIter \/ ReadStringReturn
\* the call runs without a break: a pass of the loop is taken whenever the
\* loop can take one, and the call returns once the loop is left (a pass
\* counts itself in loc, the return changes pc)
SpecString ==
  InitString /\ [][NextString]_vars /\ WF_loc(ReadStringIter) /\ WF_pc(ReadStringReturn)

\* C28: a call of readString that has read its length returns, whatever the
\* bytes of the buffer and wherever the offset is, also when the length is
\* more than the bytes left.
C28_ReadStringTerminates == (pc = "readString") ~> (pc # "readString")

\* C29: after a read, whether it has returned or thrown, the offset of the
\* wrapper is not negative, not below the offset before the read and not
\* beyond the end of the buffer, and a read that has thrown has left the
\* offset where it was.
C29_OffsetWithinBuffer ==
  /\ pc = "readString" => bw.offset >= 0 /\ bw.offset <= Len(bw.buffer)
  /\ (ret.op = "read" /\ pc = "wrapped") =>
       /\ bw.offset >= 0
       /\ bw.offset >= ret.from
       /\ bw.offset <= Len(bw.buffer)
       /\ ret.err # "none" => bw.offset = ret.from

----------------------------------------------------------------------------
(* Characters and strings *)

Lower == "abcdefghijklmnopqrstuvwxyz"
Upper == "ABCDEFGHIJKLMNOPQRSTUVWXYZ"
Digits == "0123456789"
CharAt(s, i) == SubSeq(s, i, i)
IndexIn(table, c) ==
  IF \E i \in 1..Len(table) : CharAt(table, i) = c
  THEN CHOOSE i \in 1..Len(table) : CharAt(table, i) = c
  ELSE 0
startsWith(s, c) == Len(s) >= 1 /\ CharAt(s, 1) = c
endsWith(s, c) == Len(s) >= 1 /\ CharAt(s, Len(s)) = c
toUpperCase(c) == IF IndexIn(Lower, c) > 0 THEN CharAt(Upper, IndexIn(Lower, c)) ELSE c
\* utils.ts: capitalize
capitalize(string) ==
  IF string = "" THEN ""
  ELSE toUpperCase(SubSeq(string, 1, 1)) \o SubSeq(string, 2, Len(string))
RECURSIVE NumberText(_)
\* a non-negative integer inside a template literal
NumberText(n) ==
  IF n < 10 THEN CharAt(Digits, n + 1)
  ELSE NumberText(n \div 10) \o CharAt(Digits, (n % 10) + 1)

----------------------------------------------------------------------------
(* JSON values: the schema as autobuf receives it, and the values of packets *)

JNull == [t |-> "null"]
JUndefined == [t |-> "undefined"]
JBool(b) == [t |-> "boolean", bool |-> b]
JNum(n) == [t |-> "number", num |-> n]
JStr(s) == [t |-> "string", str |-> s]
JArr(items) == [t |-> "array", items |-> items]
\* fields: the sequence of <<key, value>> in insertion order
JObj(fields) == [t |-> "object", fields |-> fields]

typeof(v) == IF v.t \in {"null", "array", "object"} THEN "object" ELSE v.t
Truthy(v) ==
  CASE v.t \in {"null", "undefined"} -> FALSE
    [] v.t = "boolean" -> v.bool
    [] v.t = "number" -> v.num # 0
    [] v.t = "string" -> v.str # ""
    [] OTHER -> TRUE
\* whether key is the text of an array index (0, 1, 2, ...)
IsIndex(key) ==
  /\ key # ""
  /\ \A i \in 1..Len(key) : IndexIn(Digits, CharAt(key, i)) > 0
  /\ Len(key) > 1 => CharAt(key, 1) # "0"
RECURSIVE NumberOfText(_)
\* the number a text of digits denotes
NumberOfText(text) ==
  IF text = "" THEN 0
  ELSE 10 * NumberOfText(SubSeq(text, 1, Len(text) - 1))
         + IndexIn(Digits, CharAt(text, Len(text))) - 1
\* the keys for (const key in v) visits
Keys(v) ==
  CASE v.t = "object" -> [i \in 1..Len(v.fields) |-> v.fields[i][1]]
    [] v.t = "array" -> [i \in 1..Len(v.items) |-> NumberText(i - 1)]
    [] v.t = "string" -> [i \in 1..Len(v.str) |-> NumberText(i - 1)]
    [] OTHER -> <<>>
\* v[key] for a v that is neither null nor undefined
Get(v, key) ==
  CASE v.t = "object" ->
         IF \E i \in 1..Len(v.fields) : v.fields[i][1] = key
         THEN v.fields[CHOOSE i \in 1..Len(v.fields) : v.fields[i][1] = key][2]
         ELSE JUndefined
    [] v.t = "array" ->
         IF key = "length" THEN JNum(Len(v.items))
         ELSE IF IsIndex(key) /\ NumberOfText(key) < Len(v.items)
         THEN v.items[NumberOfText(key) + 1]
         ELSE JUndefined
    [] v.t = "string" ->
         IF key = "length" THEN JNum(Len(v.str))
         ELSE IF IsIndex(key) /\ NumberOfText(key) < Len(v.str)
         THEN JStr(CharAt(v.str, NumberOfText(key) + 1))
         ELSE JUndefined
    [] OTHER -> JUndefined
\* list.includes(v) for a list of strings
includes(list, v) == v.t = "string" /\ v.str \in list

----------------------------------------------------------------------------
(* The validator (Types.ts) *)

ProtocolSpecRegularDataTypes ==
  {"varInt", "string", "int", "long", "stringArray", "intArray", "bytes",
   "boolean", "float", "short", "double"}
ProtocolSpecSpecialDataTypes == {"array", "object", "enum"}
ProtocolSpecAllDataTypes == ProtocolSpecRegularDataTypes \cup ProtocolSpecSpecialDataTypes
Directions == {"incoming", "outgoing", "both"}

RECURSIVE isValidProtocolSpecData(_), isValidItem(_)
\* the body of the loop of isValidProtocolSpecData for one item: FALSE is
\* "return false", TRUE is the next iteration
isValidItem(item) ==
  IF ~Truthy(item) THEN FALSE
  ELSE IF typeof(item) = "string" THEN includes(ProtocolSpecRegularDataTypes, item)
  ELSE IF typeof(item) = "object" THEN
    IF ~includes(ProtocolSpecAllDataTypes, Get(item, "type")) THEN FALSE
    ELSE IF includes(ProtocolSpecSpecialDataTypes, Get(item, "type")) THEN
      IF Truthy(Get(item, "data")) THEN
        IF Get(item, "type").str # "array"
           \/ ~includes(ProtocolSpecRegularDataTypes, Get(item, "data"))
        THEN isValidProtocolSpecData(Get(item, "data"))
        ELSE TRUE
      ELSE IF Truthy(Get(item, "keyType")) /\ Truthy(Get(item, "valueType")) THEN
        /\ includes(ProtocolSpecRegularDataTypes, Get(item, "keyType"))
        /\ isValidProtocolSpecData(JObj(<< <<"placeholder", Get(item, "valueType")>> >>))
      ELSE IF Get(item, "type").str = "enum" THEN
        /\ typeof(Get(item, "name")) = "string"
        /\ Get(item, "values").t = "array"
        /\ \A i \in 1..Len(Get(item, "values").items) :
             typeof(Get(item, "values").items[i]) = "string"
      ELSE FALSE
    ELSE TRUE
  ELSE FALSE

\* a validator whose loop over the keys of data leaves after the first key
isValidProtocolSpecData_FirstKeyOnly(data) ==
  IF ~Truthy(data) \/ typeof(data) # "object" THEN FALSE
  ELSE Len(Keys(data)) = 0 \/ isValidItem(Get(data, Keys(data)[1]))

isValidProtocolSpecData(data) ==
  IF ~Truthy(data) \/ typeof(data) # "object" THEN FALSE
  ELSE \A i \in 1..Len(Keys(data)) : isValidItem(Get(data, Keys(data)[i]))

\* the body of the loop of isValidProtocolSpec for spec[key]:
\* "TypeError" when spec[key] has no properties, "false" is "return false"
isValidPacket(packet) ==
  IF packet.t \in {"null", "undefined"} THEN "TypeError"
  ELSE IF typeof(Get(packet, "id")) # "number" THEN "false"
  ELSE IF ~includes(Directions, Get(packet, "direction")) THEN "false"
  ELSE IF ~isValidProtocolSpecData(Get(packet, "data")) THEN "false"
  ELSE "next"

RECURSIVE isValidProtocolSpecFrom(_, _)
isValidProtocolSpecFrom(spec, i) ==
  IF i > Len(Keys(spec)) THEN "true"
  ELSE IF isValidPacket(Get(spec, Keys(spec)[i])) # "next"
  THEN isValidPacket(Get(spec, Keys(spec)[i]))
  ELSE isValidProtocolSpecFrom(spec, i + 1)

isValidProtocolSpec(spec) ==
  IF ~Truthy(spec) \/ typeof(spec) # "object" THEN "false"
  ELSE isValidProtocolSpecFrom(spec, 1)

----------------------------------------------------------------------------
(* Validation of schemas: the documents a schema file can hold *)

Field(key, value) == <<key, value>>
Typed(type, rest) == JObj(<<Field("type", JStr(type))>> \o rest)
IntTree == JObj(<<Field("x", JStr("int"))>>)
BogusTree == JObj(<<Field("x", JStr("bogus"))>>)
KeyValue(keyType, valueType) == <<Field("keyType", keyType), Field("valueType", valueType)>>
EnumOf(name, values) == <<Field("name", name), Field("values", values)>>

TypeNames == ProtocolSpecRegularDataTypes \cup {"UUID", "blob", "object", "bogus"}
ScalarDescriptors ==
  {JStr(n) : n \in TypeNames} \cup {Typed(n, <<>>) : n \in TypeNames}
NonDescriptors ==
  {JNull, JNum(0), JNum(5), JBool(TRUE), JStr(""), JArr(<<>>), JObj(<<>>),
   JObj(<<Field("type", JNum(1))>>), JObj(<<Field("data", IntTree)>>)}
ArrayDescriptors ==
  {Typed("array", rest) : rest \in
     {<<>>, <<Field("data", JStr("int"))>>, <<Field("data", JStr("bogus"))>>,
      <<Field("data", IntTree)>>, <<Field("data", BogusTree)>>,
      <<Field("data", JArr(<<>>))>>, <<Field("data", JNull)>>,
      <<Field("data", Typed("array", <<Field("data", JStr("int"))>>))>>,
      <<Field("data", JStr("int")), Field("indexer", JStr("short"))>>,
      KeyValue(JStr("int"), JStr("int")),
      EnumOf(JStr("E"), JArr(<<JStr("A")>>))}}
ObjectDescriptors ==
  {Typed("object", rest) : rest \in
     {<<Field("data", IntTree)>>, <<Field("data", JObj(<<>>))>>,
      <<Field("data", BogusTree)>>, <<Field("data", JArr(<<JStr("int")>>))>>,
      <<Field("data", JStr("int"))>>,
      <<Field("data", JObj(<<Field("y", Typed("object", <<Field("data", BogusTree)>>))>>))>>,
      <<Field("data", JObj(<<Field("y", Typed("object", <<Field("data", IntTree)>>))>>))>>,
      KeyValue(JStr("string"), JStr("int")), KeyValue(JStr("bogus"), JStr("int")),
      KeyValue(JStr("string"), JStr("bogus")), KeyValue(JStr("object"), JStr("int")),
      KeyValue(JStr("string"), Typed("array", <<Field("data", JStr("int"))>>)),
      KeyValue(JStr("string"), Typed("array", <<Field("data", BogusTree)>>)),
      KeyValue(JStr("string"), Typed("bogus", <<>>)),
      <<Field("keyType", JStr("string"))>>, <<Field("valueType", JStr("int"))>>,
      EnumOf(JStr("E"), JArr(<<JStr("A")>>))}}
EnumDescriptors ==
  {Typed("enum", rest) : rest \in
     {<<>>, EnumOf(JStr("E"), JArr(<<JStr("A"), JStr("B")>>)),
      EnumOf(JStr("E"), JArr(<<>>)), EnumOf(JStr("E"), JArr(<<JStr("A"), JNum(1)>>)),
      EnumOf(JStr("E"), JStr("AB")), EnumOf(JNum(5), JArr(<<JStr("A")>>)),
      <<Field("name", JStr("E"))>>, <<Field("values", JArr(<<JStr("A")>>))>>,
      <<Field("data", JObj(<<>>))>>, <<Field("data", IntTree)>>,
      KeyValue(JStr("int"), JStr("int"))}}
Descriptors ==
  ScalarDescriptors \cup NonDescriptors \cup ArrayDescriptors
    \cup ObjectDescriptors \cup EnumDescriptors

FieldTrees ==
  {JObj(<<>>), JNull, JNum(5), JStr("int"), JBool(TRUE), JArr(<<>>),
   JArr(<<JStr("int")>>), JArr(<<JStr("bogus")>>)}
    \cup {JObj(<<Field("a", d)>>) : d \in Descriptors}
    \cup {JObj(<<Field("a", JStr("int")), Field("b", d)>>) : d \in
            {JStr("string"), JStr("bogus"), JNull, Typed("array", <<>>)}}
PacketOf(id, direction, data) ==
  JObj(<<Field("id", id), Field("direction", direction), Field("data", data)>>)
GoodPacket == PacketOf(JNum(1), JStr("both"), IntTree)
Packets ==
  {PacketOf(JNum(0), JStr("incoming"), data) : data \in FieldTrees}
    \cup {PacketOf(id, JStr("outgoing"), IntTree) : id \in {JStr("1"), JNull, JBool(TRUE)}}
    \cup {PacketOf(JNum(2), direction, IntTree) : direction \in
            {JStr("both"), JStr("sideways"), JStr(""), JNum(1), JNull}}
    \cup {JObj(<<Field("direction", JStr("both")), Field("data", IntTree)>>),
          JObj(<<Field("id", JNum(1)), Field("data", IntTree)>>),
          JObj(<<Field("id", JNum(1)), Field("direction", JStr("both"))>>),
          JObj(<<>>), JNull, JNum(7), JStr("packet"), JArr(<<>>)}
Schemas ==
  {JNull, JNum(0), JNum(3), JStr("schema"), JStr(""), JBool(TRUE), JBool(FALSE),
   JObj(<<>>), JArr(<<>>), JArr(<<GoodPacket>>), JArr(<<JNum(1)>>)}
    \cup {JObj(<<Field("P", p)>>) : p \in Packets}
    \cup {JObj(<<Field("P", GoodPacket), Field("Q", p)>>) : p \in
            {GoodPacket, JNull, JNum(7), PacketOf(JStr("1"), JStr("both"), IntTree),
             PacketOf(JNum(1), JStr("both"), BogusTree),
             PacketOf(JNum(1), JStr("both"), JArr(<<>>))}}

\* a schema file has been parsed and autobuf is called with its document
InitValidate ==
  /\ pc = "spec"
  /\ arg \in Schemas
  /\ bw = None /\ loc = None
  /\ ret = NoCall

\* autobuf: Verification
Validate ==
  /\ pc = "spec"
  /\ LET valid == isValidProtocolSpec(arg)
     IN /\ ret' = [NoCall EXCEPT !.op = "isValidProtocolSpec",
                                 !.err = IF valid = "TypeError" THEN valid ELSE "none",
                                 !.value = JBool(valid = "true")]
        /\ pc' = CASE valid = "true" -> "valid"
                   [] valid = "false" -> "invalid"
                   [] OTHER -> "threw"
  /\ UNCHANGED <<arg, bw, loc>>

NextValidate == Validate

SpecValidate == InitValidate /\ [][NextValidate]_vars

----------------------------------------------------------------------------
(* Claims on the validator (SpecValidate) *)

Accepted == pc = "valid"
IsMapping(v) == v.t = "object"
\* the names of the scalar kinds of the data model
ScalarKindNames == ProtocolSpecRegularDataTypes \cup {"UUID", "blob"}
IsStringList(v) == v.t = "array" /\ \A i \in 1..Len(v.items) : v.items[i].t = "string"

RECURSIVE ValidFieldDescriptor(_), ValidFieldTree(_)
\* a field descriptor of the data model: a scalar name, {type: scalar}, or a
\* composite type with the fields of its variant
ValidFieldDescriptor(d) ==
  \/ includes(ScalarKindNames, d)
  \/ /\ IsMapping(d)
     /\ Get(d, "type").t = "string"
     /\ CASE Get(d, "type").str \in ScalarKindNames -> TRUE
          [] Get(d, "type").str = "array" ->
               \/ ValidFieldDescriptor(Get(d, "data"))
               \/ ValidFieldTree(Get(d, "data"))
          [] Get(d, "type").str = "object" ->
               \/ ValidFieldTree(Get(d, "data"))
               \/ /\ includes(ScalarKindNames, Get(d, "keyType"))
                  /\ ValidFieldDescriptor(Get(d, "valueType"))
          [] Get(d, "type").str = "enum" ->
               /\ Get(d, "name").t = "string"
               /\ IsStringList(Get(d, "values"))
               /\ Get(d, "values").items # <<>>
          [] OTHER -> FALSE
ValidFieldTree(tree) ==
  /\ IsMapping(tree)
  /\ \A i \in 1..Len(tree.fields) : ValidFieldDescriptor(tree.fields[i][2])
ValidPacketSchema(packet) ==
  /\ IsMapping(packet)
  /\ Get(packet, "id").t = "number"
  /\ includes(Directions, Get(packet, "direction"))
  /\ ValidFieldTree(Get(packet, "data"))

\* C10: a schema the validator accepts is a mapping at its top level, and each
\* of its packets has a numeric id, a direction among incoming, outgoing and
\* both, and a field tree that is a mapping of valid field descriptors.
C10_AcceptsOnlyWellFormed ==
  Accepted =>
    /\ IsMapping(arg)
    /\ \A i \in 1..Len(Keys(arg)) : ValidPacketSchema(Get(arg, Keys(arg)[i]))

----------------------------------------------------------------------------
(* Text: the strings the generator builds *)

\* a value inside a template literal: `${v}`
Text(v) ==
  CASE v.t = "string" -> v.str
    [] v.t = "number" -> IF v.num >= 0 THEN NumberText(v.num) ELSE "-" \o NumberText(-v.num)
    [] v.t = "boolean" -> IF v.bool THEN "true" ELSE "false"
    [] v.t = "object" -> "[object Object]"
    [] v.t = "array" -> ""
    [] OTHER -> v.t
RECURSIVE Join(_)
\* parts.join('')
Join(parts) == IF parts = <<>> THEN "" ELSE Head(parts) \o Join(Tail(parts))

typeMappings ==
  [varInt |-> "number", string |-> "string", int |-> "number", long |-> "number",
   stringArray |-> "string[]", intArray |-> "number[]", bytes |-> "Buffer",
   boolean |-> "boolean", float |-> "number", short |-> "number", double |-> "number"]
\* typeMappings[keyType] === 'number'
MapsToNumber(type) ==
  /\ type.t = "string"
  /\ type.str \in DOMAIN typeMappings
  /\ typeMappings[type.str] = "number"

\* the name generator of the loop bindings: one counter, shared by every call
\* of genWriteCode, that getNextChar advances and resetNextChar sets back
resetNextChar == 0
getNextChar(next) == [name |-> CharAt(Lower, (next % 26) + 1), next |-> next + 1]

----------------------------------------------------------------------------
(* The codec synthesizer: the statements genWriteCode and genReadCode emit.  *)
(* A statement is kept as a record of the emitted line: its kind and the    *)
(* texts the generator splices into it.  Indentation and blank lines are    *)
(* left out.                                                                *)

\* an expression of an emitted line
Ref(path) == [e |-> "ref", path |-> path]                      \* ${keyPath}
KeysLengthOf(path) == [e |-> "keysLength", path |-> path]        \* Object.keys(${keyPath}).length
NumberOf(path) == [e |-> "Number", path |-> path]                \* Number(key)
EnumAt(enum, index) == [e |-> "index", enum |-> enum, index |-> index]  \* ${name}Enum[...]
BufRead(method) == [e |-> "read", method |-> method]            \* this.buf.read<Type>()
NewObject == [e |-> "object"]                                    \* {} as any
NewArray == [e |-> "array"]                                      \* []
Literal(text) == [e |-> "text", text |-> text]                   \* ${indexer}
\* a statement
BufWrite(method, value) == [op |-> "write", method |-> method, value |-> value]
ForOf(name, path, body) == [op |-> "forOf", name |-> name, path |-> path, body |-> body]
ForIn(name, path, body) == [op |-> "forIn", name |-> name, path |-> path, body |-> body]
Assign(path, value) == [op |-> "assign", path |-> path, value |-> value]
Const(name, value) == [op |-> "const", name |-> name, value |-> value]
ForIndex(name, limit, body) == [op |-> "for", name |-> name, limit |-> limit, body |-> body]

\* i.startsWith('[') && i.endsWith(']')
Bracketed(i) == startsWith(i, "[") /\ endsWith(i, "]")
\* keys is a string (JStr) or an array of strings (JArr)
KeysLength(keys) == IF keys.t = "string" THEN Len(keys.str) ELSE Len(keys.items)
\* [...(typeof keys === 'string' ? [keys] : keys)]
KeyList(keys) == IF keys.t = "string" THEN <<keys.str>> ELSE keys.items
\* typeof rawItem === 'string' ? { type: rawItem } : rawItem
ItemOf(rawItem) == IF rawItem.t = "string" THEN JObj(<<Field("type", rawItem)>>) ELSE rawItem
\* (item as any).valueType || 'short'
OrShort(valueType) == IF Truthy(valueType) THEN valueType ELSE JStr("short")

\* genWriteCode: keyPath
WriteKeyPath(keys, key) ==
  IF keys.t = "string" THEN keys.str \o "." \o key
  ELSE LET joined(all) ==
             Join([n \in 1..Len(all) |->
                     IF Bracketed(all[n]) \/ all[n] = ""
                        \/ (keys.items # <<>> /\ keys.items[1] = all[n])
                     THEN all[n] ELSE "." \o all[n]])
       IN joined(Append(keys.items, key))

\* genWriteCode: the length line of an array, by its indexer
WriteLength(indexer, keyPath) ==
  CASE indexer.t \in {"undefined", "null"} \/ indexer = JStr("varInt") ->
         <<BufWrite("writeVarInt", Ref(keyPath \o ".length"))>>
    [] indexer = JStr("int") -> <<BufWrite("writeInt", Ref(keyPath \o ".length"))>>
    [] indexer = JStr("short") -> <<BufWrite("writeShort", Ref(keyPath \o ".length"))>>
    [] indexer = JStr("long") -> <<BufWrite("writeLong", Ref(keyPath \o ".length"))>>
    [] OTHER -> <<>>

\* what a generator returns: the lines, the name counter it leaves, and the
\* error it throws ("none": it returns)
Lines(lines, next) == [lines |-> lines, next |-> next, err |-> "none"]
GenThrow(err, next) == [lines |-> <<>>, next |-> next, err |-> err]
\* capitalize(v) calls v.substring
CanCapitalize(v) == v.t = "string"

RECURSIVE genWriteCode(_, _, _), genWriteKeys(_, _, _, _), genWriteItem(_, _, _, _)
\* the lines genWriteCode pushes for one key, and the name counter after them
genWriteItem(item, keys, key, next) ==
  LET array(keyPath, iteratorName, inner) ==
        IF inner.err # "none" THEN inner
        ELSE Lines(WriteLength(Get(item, "indexer"), keyPath)
                     \o <<ForOf(iteratorName.name, keyPath, inner.lines)>>,
                   inner.next)
      arrayOf(keyPath, iteratorName) ==
        array(keyPath, iteratorName,
              IF includes(ProtocolSpecRegularDataTypes, Get(item, "data"))
              THEN genWriteCode(JObj(<<Field("", Get(item, "data"))>>),
                                JArr(<<iteratorName.name>>), iteratorName.next)
              ELSE genWriteCode(Get(item, "data"), JStr(iteratorName.name),
                                iteratorName.next))
      map(keyPath, inner) ==
        IF inner.err # "none" THEN inner
        ELSE Lines(
           <<BufWrite("writeVarInt", KeysLengthOf(keyPath)),
             ForIn("key", keyPath,
               <<BufWrite("write" \o capitalize(Get(item, "keyType").str),
                          IF MapsToNumber(Get(item, "keyType"))
                          THEN NumberOf("key") ELSE Ref("key"))>>
                 \o inner.lines)>>,
           inner.next)
      of(keyPath, type) ==
        IF includes(ProtocolSpecSpecialDataTypes, type) THEN
          CASE type.str = "array" -> arrayOf(keyPath, getNextChar(next))
            [] type.str = "object" ->
                 IF Truthy(Get(item, "data"))
                 THEN genWriteCode(Get(item, "data"), JArr(Append(KeyList(keys), key)), next)
                 ELSE IF ~CanCapitalize(Get(item, "keyType")) THEN GenThrow("TypeError", next)
                 ELSE map(keyPath,
                          genWriteCode(JObj(<<Field("", Get(item, "valueType"))>>),
                                       JArr(KeyList(keys) \o <<key, "[key]">>), next))
            [] OTHER ->
                 IF ~CanCapitalize(OrShort(Get(item, "valueType")))
                 THEN GenThrow("TypeError", next)
                 ELSE Lines(<<BufWrite("write" \o capitalize(OrShort(Get(item, "valueType")).str),
                                       EnumAt(Text(Get(item, "name")) \o "Enum", Ref(keyPath)))>>,
                            next)
        ELSE IF ~CanCapitalize(type) THEN GenThrow("TypeError", next)
        ELSE Lines(<<BufWrite("write" \o capitalize(type.str), Ref(keyPath))>>, next)
  IN of(WriteKeyPath(keys, key), Get(item, "type"))

\* the loop of genWriteCode from the i-th key of data on
genWriteKeys(data, keys, i, next) ==
  LET join(first, rest) ==
        IF first.err # "none" THEN first
        ELSE IF rest.err # "none" THEN rest
        ELSE Lines(first.lines \o rest.lines, rest.next)
      from(first) == join(first, genWriteKeys(data, keys, i + 1, first.next))
      of(key) == from(genWriteItem(ItemOf(Get(data, key)), keys, key, next))
  IN IF i > Len(Keys(data)) THEN Lines(<<>>, next) ELSE of(Keys(data)[i])

\* a genWriteCode that goes on with the names where the last call left them
genWriteCode_NoReset(data, keys, next) ==
  genWriteKeys(data, IF KeysLength(keys) = 0 THEN JArr(<<"data">>) ELSE keys, 1, next)
genWriteCode(data, keys, next) ==
  IF KeysLength(keys) = 0
  THEN genWriteKeys(data, JArr(<<"data">>), 1, resetNextChar)
  ELSE genWriteKeys(data, keys, 1, next)

\* genReadCode: keys.map(...).join(''), and keyPath
ReadKeysPath(keys) ==
  Join([n \in 1..Len(keys) |->
          IF Bracketed(keys[n]) \/ keys[n] = "" THEN keys[n] ELSE "." \o keys[n]])
ReadKeyPath(keys, key) == ReadKeysPath(Append(keys, key))

\* a read program that takes every count for a varint
ReadLength_AlwaysVarInt(indexer, key) == Const(key \o "Length", BufRead("readVarInt"))
\* genReadCode: the line that declares the length of an array, by its indexer
ReadLength(indexer, key) ==
  CASE indexer.t \in {"undefined", "null"} \/ indexer = JStr("varInt") ->
         Const(key \o "Length", BufRead("readVarInt"))
    [] indexer = JStr("int") -> Const(key \o "Length", BufRead("readInt"))
    [] indexer = JStr("short") -> Const(key \o "Length", BufRead("readShort"))
    [] indexer = JStr("long") -> Const(key \o "Length", BufRead("readLong"))
    [] OTHER -> Const(key \o "Length", Literal(Text(indexer)))

\* genReadCode: whether the line `this.data<keys> = {} as any;` is left out
\* (data is neither null nor undefined)
SkipsInit(data, keys) ==
  /\ Len(keys) # 0
  /\ Len(Keys(data)) = 1
  /\ LET skips(only) ==
           \/ includes(ProtocolSpecRegularDataTypes, only)
           \/ includes(ProtocolSpecRegularDataTypes, Get(only, "type"))
           \/ Get(only, "type") = JStr("array")
           \/ (Get(only, "type") = JStr("object") /\ Truthy(Get(only, "data")))
     IN skips(Get(data, Keys(data)[1]))

\* a read program that takes every key of a map for a string
ReadMapKey_AlwaysString(keyType) == Const("key", BufRead("readString"))
\* genReadCode: the line that reads the key of an entry of a map
ReadMapKey(keyType) == Const("key", BufRead("read" \o capitalize(keyType.str)))

RECURSIVE genReadCode(_, _), genReadKeys(_, _, _), genReadItem(_, _, _)
\* the lines genReadCode pushes for one key
genReadItem(item, keys, key) ==
  LET array(keyPath, inner) ==
        IF inner.err # "none" THEN inner
        ELSE Lines(<<Assign("this.data" \o keyPath, NewArray),
                     ReadLength(Get(item, "indexer"), key),
                     ForIndex(key \o "Index", key \o "Length", inner.lines)>>, 0)
      map(inner) ==
        IF inner.err # "none" THEN inner
        ELSE Lines(
           <<Const(key \o "Length", BufRead("readVarInt")),
             ForIndex(key \o "Index", key \o "Length",
               <<ReadMapKey(Get(item, "keyType"))>> \o inner.lines)>>, 0)
      of(keyPath, type) ==
        IF includes(ProtocolSpecSpecialDataTypes, type) THEN
          CASE type.str = "array" ->
                 array(keyPath,
                       IF includes(ProtocolSpecRegularDataTypes, Get(item, "data"))
                       THEN genReadCode(
                              JObj(<<Field("[" \o key \o "Index]", Get(item, "data"))>>),
                              Append(keys, key))
                       ELSE genReadCode(Get(item, "data"),
                                        keys \o <<key, "[" \o key \o "Index]">>))
            [] type.str = "object" ->
                 IF Truthy(Get(item, "data"))
                 THEN genReadCode(Get(item, "data"), Append(keys, key))
                 ELSE IF ~CanCapitalize(Get(item, "keyType")) THEN GenThrow("TypeError", 0)
                 ELSE map(genReadCode(JObj(<<Field("", Get(item, "valueType"))>>),
                                      keys \o <<key, "[key]">>))
            [] OTHER ->
                 IF ~CanCapitalize(OrShort(Get(item, "valueType"))) THEN GenThrow("TypeError", 0)
                 ELSE Lines(<<Assign("this.data" \o keyPath,
                                EnumAt(Text(Get(item, "name")) \o "Enum",
                                       BufRead("read" \o capitalize(OrShort(Get(item, "valueType")).str))))>>,
                            0)
        ELSE IF ~CanCapitalize(type) THEN GenThrow("TypeError", 0)
        ELSE Lines(<<Assign("this.data" \o keyPath, BufRead("read" \o capitalize(type.str)))>>, 0)
  IN of(ReadKeyPath(keys, key), Get(item, "type"))

\* the loop of genReadCode from the i-th key of data on
genReadKeys(data, keys, i) ==
  LET join(first, rest) ==
        IF first.err # "none" THEN first
        ELSE IF rest.err # "none" THEN rest
        ELSE Lines(first.lines \o rest.lines, 0)
      of(key) == join(genReadItem(ItemOf(Get(data, key)), keys, key),
                      genReadKeys(data, keys, i + 1))
  IN IF i > Len(Keys(data)) THEN Lines(<<>>, 0) ELSE of(Keys(data)[i])

genReadCode(data, keys) ==
  IF Len(keys) # 0 /\ data.t \in {"undefined", "null"} THEN GenThrow("TypeError", 0)
  ELSE LET after(loop) ==
             IF loop.err # "none" THEN loop
             ELSE IF SkipsInit(data, keys) THEN loop
             ELSE Lines(<<Assign("this.data" \o ReadKeysPath(keys), NewObject)>>
                          \o loop.lines, 0)
       IN after(genReadKeys(data, keys, 1))

----------------------------------------------------------------------------
(* The values the emitted statements work on *)

\* the printable ASCII characters of the codes 32 .. 95 and 97 .. 126
AsciiTo95 == " !\"#$%&'()*+,-./0123456789:;<=>?@ABCDEFGHIJKLMNOPQRSTUVWXYZ[\\]^_"
AsciiFrom97 == "abcdefghijklmnopqrstuvwxyz{|}~"
CodeOf(c) ==
  IF IndexIn(AsciiTo95, c) > 0 THEN 31 + IndexIn(AsciiTo95, c) ELSE 96 + IndexIn(AsciiFrom97, c)
CharOf(code) ==
  IF code <= 95 THEN CharAt(AsciiTo95, code - 31) ELSE CharAt(AsciiFrom97, code - 96)
\* a string of these characters as the characters writeString takes
CharsOf(str) == [i \in 1..Len(str) |-> <<CodeOf(CharAt(str, i))>>]
IsAscii(chars) ==
  \A i \in 1..Len(chars) :
    Len(chars[i]) = 1 /\ chars[i][1] >= 32 /\ chars[i][1] <= 126 /\ chars[i][1] # 96
\* the string readString returns: its text when it has one here, its
\* characters otherwise
StringOf(chars) ==
  IF IsAscii(chars) THEN JStr(Join([i \in 1..Len(chars) |-> CharOf(chars[i][1])]))
  ELSE [t |-> "string", chars |-> chars]

Has(v, key) == v.t = "object" /\ \E i \in 1..Len(v.fields) : v.fields[i][1] = key
\* where a new key goes among the fields of an object: array indices come
\* first, in ascending order, other keys follow in insertion order
Before(fields, key) ==
  IF ~IsIndex(key) THEN Len(fields)
  ELSE Cardinality({i \in 1..Len(fields) :
                      IsIndex(fields[i][1]) /\ NumberOfText(fields[i][1]) < NumberOfText(key)})
\* v[key] = value, for an object or an array v
Put(v, key, value) ==
  CASE v.t = "object" ->
         IF Has(v, key)
         THEN JObj([i \in 1..Len(v.fields) |->
                      IF v.fields[i][1] = key THEN Field(key, value) ELSE v.fields[i]])
         ELSE JObj(SubSeq(v.fields, 1, Before(v.fields, key)) \o <<Field(key, value)>>
                     \o SubSeq(v.fields, Before(v.fields, key) + 1, Len(v.fields)))
    [] v.t = "array" /\ IsIndex(key) /\ NumberOfText(key) < Len(v.items) ->
         JArr([v.items EXCEPT ![NumberOfText(key) + 1] = value])
    [] v.t = "array" /\ IsIndex(key) /\ NumberOfText(key) = Len(v.items) ->
         JArr(Append(v.items, value))
    [] OTHER -> [t |-> "unmodelled"]

RECURSIVE DeepEqual(_, _)
\* deep equality of two values: the same keys, whatever their order, with
\* deep-equal values
DeepEqual(a, b) ==
  CASE a.t # b.t -> FALSE
    [] a.t = "object" ->
         /\ Len(a.fields) = Len(b.fields)
         /\ \A i \in 1..Len(a.fields) :
              Has(b, a.fields[i][1]) /\ DeepEqual(a.fields[i][2], Get(b, a.fields[i][1]))
    [] a.t = "array" ->
         /\ Len(a.items) = Len(b.items)
         /\ \A i \in 1..Len(a.items) : DeepEqual(a.items[i], b.items[i])
    [] OTHER -> a = b

\* the result of evaluating an expression: the error thrown ("none": a value),
\* the value, and the buffer wrapper after it
Value(value, w) == [err |-> "none", value |-> value, bw |-> w]
Raise(err, w) == [err |-> err, value |-> JUndefined, bw |-> w]

\* the methods of BufWrapper
WriteMethods ==
  {"writeVarInt", "writeString", "writeInt", "writeLong", "writeStringArray",
   "writeIntArray", "writeBytes", "writeBoolean", "writeFloat", "writeShort",
   "writeDouble", "writeUUID", "writeBlob"}
ReadMethods ==
  {"readVarInt", "readString", "readInt", "readLong", "readStringArray",
   "readIntArray", "readBytes", "readBoolean", "readFloat", "readShort",
   "readDouble", "readUUID", "readBlob"}

\* this.buf.<method>(v) for the value v of a packet field: a number, string
\* or boolean as the method expects, or undefined
BufWriteValue(method, w, v) ==
  LET done(r) == IF r.err # "none" THEN Raise(r.err, w) ELSE Value(JUndefined, r.bw)
  IN CASE method \notin WriteMethods -> Raise("TypeError", w)
       [] method = "writeBoolean" -> done(writeBoolean(w, Truthy(v)))
       [] method = "writeVarInt" /\ v.t = "number" -> done(writeVarInt(w, NumOf(v.num)))
       \* undefined is NaN in every comparison and 0 in every bit operation
       [] method = "writeVarInt" /\ v.t = "undefined" -> done(writeVarInt(w, NumOf(0)))
       [] method = "writeString" /\ v.t = "string" -> done(writeString(w, CharsOf(v.str)))
       [] method = "writeString" /\ v.t = "undefined" -> Raise("TypeError", w)
       [] method = "writeInt" /\ v.t = "number" -> done(writeInt(w, v.num))
       \* writeInt32BE and writeUInt16BE store NaN as zero bytes
       [] method = "writeInt" /\ v.t = "undefined" -> done(writeInt(w, 0))
       [] method = "writeShort" /\ v.t = "number" -> done(writeShort(w, v.num))
       [] method = "writeShort" /\ v.t = "undefined" -> done(writeShort(w, 0))
       [] method = "writeLong" /\ v.t = "number" -> done(writeLong(w, NumOf(v.num)))
       [] method = "writeLong" /\ v.t = "undefined" -> Raise("TypeError", w)
       [] OTHER -> Raise("unmodelled", w)

\* this.buf.<method>()
BufReadValue(method, w) ==
  LET boolean(r) == IF r.err # "none" THEN Raise(r.err, w) ELSE Value(JBool(r.value), r.bw)
      string(r) == IF r.err # "none" THEN Raise(r.err, w) ELSE Value(StringOf(r.value), r.bw)
      int(r) == IF r.err # "none" THEN Raise(r.err, w) ELSE Value(JNum(r.value), r.bw)
      number(r) ==
        IF r.err # "none" THEN Raise(r.err, w)
        ELSE IF "hi" \notin DOMAIN r.value THEN Raise("unmodelled", w)
        ELSE Value(JNum(IntOf(r.value)), r.bw)
  IN CASE method \notin ReadMethods -> Raise("TypeError", w)
       [] method = "readBoolean" -> boolean(readBoolean(w))
       [] method = "readVarInt" -> number(readVarInt(w))
       [] method = "readString" -> string(readString(w))
       [] method = "readInt" -> int(readInt(w))
       [] method = "readShort" -> int(readShort(w))
       [] method = "readLong" -> number(readLong(w))
       [] OTHER -> Raise("unmodelled", w)

----------------------------------------------------------------------------
(* Execution of the emitted statements *)

IdentifierChars == Lower \o Upper \o Digits \o "_$"
IsIdentifier(name) ==
  /\ name # ""
  /\ \A i \in 1..Len(name) : IndexIn(IdentifierChars, CharAt(name, i)) > 0
  /\ IndexIn(Digits, CharAt(name, 1)) = 0

RECURSIVE ScanPath(_, _, _, _)
\* the tokens of the text of a member expression such as data.list[key].x:
\* the root identifier, then .name and [name] accessors
ScanPath(text, i, cur, out) ==
  LET scan(c, flush) ==
        CASE c = "." -> ScanPath(text, i + 1, [a |-> ".", name |-> ""], flush)
          [] c = "[" -> ScanPath(text, i + 1, [a |-> "[", name |-> ""], flush)
          [] c = "]" ->
               IF cur.a = "["
               THEN ScanPath(text, i + 1, [a |-> "]", name |-> ""],
                             Append(out, [a |-> "[]", name |-> cur.name]))
               ELSE ScanPath(text, i + 1, [a |-> "bad", name |-> c], flush)
          [] OTHER -> ScanPath(text, i + 1, [cur EXCEPT !.name = @ \o c], out)
      from(flush) == IF i > Len(text) THEN flush ELSE scan(CharAt(text, i), flush)
  IN from(IF cur.a = "]" /\ cur.name = "" THEN out ELSE Append(out, cur))
ParsePath(text) == ScanPath(text, 1, [a |-> "root", name |-> ""], <<>>)
\* the text is a member expression
IsPath(text) ==
  LET are(tokens) ==
        \A i \in 1..Len(tokens) :
          tokens[i].a \in {"root", ".", "[]"} /\ IsIdentifier(tokens[i].name)
  IN are(ParsePath(text))

\* ToPropertyKey
PropertyKey(v) == Text(v)

RECURSIVE Walk(_, _, _, _, _)
\* the value of the accessors tokens[i .. last] applied to v
Walk(v, tokens, i, last, env) ==
  IF i > last THEN [err |-> "none", value |-> v]
  ELSE IF tokens[i].a = "[]" /\ ~Has(env, tokens[i].name)
  THEN [err |-> "ReferenceError", value |-> JUndefined]
  ELSE IF v.t \in {"undefined", "null"} THEN [err |-> "TypeError", value |-> JUndefined]
  ELSE Walk(Get(v, IF tokens[i].a = "[]" THEN PropertyKey(Get(env, tokens[i].name))
                   ELSE tokens[i].name),
            tokens, i + 1, last, env)

\* the value of a member expression in the scope env
EvalRef(path, env) ==
  LET from(tokens) ==
        IF ~Has(env, tokens[1].name) THEN [err |-> "ReferenceError", value |-> JUndefined]
        ELSE Walk(Get(env, tokens[1].name), tokens, 2, Len(tokens), env)
  IN from(ParsePath(path))

RECURSIVE SetIn(_, _, _, _, _)
\* v with the location tokens[i ..] set to value; the locations up to the last
\* accessor exist
SetIn(v, tokens, i, env, value) ==
  LET at(key) == Put(v, key, SetIn(Get(v, key), tokens, i + 1, env, value))
  IN IF i > Len(tokens) THEN value
     ELSE at(IF tokens[i].a = "[]" THEN PropertyKey(Get(env, tokens[i].name))
             ELSE tokens[i].name)

\* Number(v) of a string
NumberOfString(v) ==
  IF v.t = "string" /\ "str" \in DOMAIN v /\ (IsIndex(v.str) \/ v.str = "")
  THEN JNum(NumberOfText(v.str)) ELSE [t |-> "unmodelled"]

RECURSIVE Eval(_, _, _)
\* the value of an expression of an emitted line
Eval(expr, env, w) ==
  LET ref(r) == IF r.err # "none" THEN Raise(r.err, w) ELSE Value(r.value, w)
      keysLength(r) ==
        IF r.err # "none" THEN Raise(r.err, w)
        ELSE IF r.value.t \in {"undefined", "null"} THEN Raise("TypeError", w)
        ELSE Value(JNum(Len(Keys(r.value))), w)
      number(r) == IF r.err # "none" THEN Raise(r.err, w) ELSE Value(NumberOfString(r.value), w)
      index(r) ==
        IF r.err # "none" THEN r
        ELSE Value(Get(Get(env, expr.enum), PropertyKey(r.value)), r.bw)
  IN
  CASE expr.e = "ref" -> ref(EvalRef(expr.path, env))
    [] expr.e = "keysLength" -> keysLength(EvalRef(expr.path, env))
    [] expr.e = "Number" -> number(EvalRef(expr.path, env))
    [] expr.e = "index" ->
         IF ~Has(env, expr.enum) THEN Raise("ReferenceError", w)
         ELSE index(Eval(expr.index, env, w))
    [] expr.e = "read" -> BufReadValue(expr.method, w)
    [] expr.e = "object" -> Value(JObj(<<>>), w)
    [] expr.e = "array" -> Value(JArr(<<>>), w)
    [] expr.e = "text" ->
         IF IsIndex(expr.text) THEN Value(JNum(NumberOfText(expr.text)), w)
         ELSE Eval(Ref(expr.text), env, w)

\* the state of a running method: its scope (this, the parameters and the
\* bindings in reach), the buffer wrapper this.buf, and the error thrown
Running(env, w) == [env |-> env, bw |-> w, err |-> "none"]
\* the scope after a block: its bindings are dropped, what it did to this stays
AfterBlock(outer, inner) ==
  [inner EXCEPT !.env = Put(outer.env, "this", Get(inner.env, "this"))]
\* the values for (const x of v) visits; v is an array or a string
Iterated(v) ==
  IF v.t = "array" THEN v.items ELSE [i \in 1..Len(v.str) |-> JStr(CharAt(v.str, i))]

\* for (const <name> of|in <path>): the path is evaluated in a scope that
\* has the binding of the loop already, not yet initialised, so a path that
\* goes through the name reads the binding in its dead zone
InDeadZone(name, tokens) ==
  \E n \in 1..Len(tokens) : tokens[n].a \in {"root", "[]"} /\ tokens[n].name = name

RECURSIVE Exec(_, _, _), ExecLine(_, _), ExecEach(_, _, _, _, _), ExecFor(_, _, _)
\* the lines from the i-th on
Exec(lines, i, st) ==
  IF st.err # "none" \/ i > Len(lines) THEN st
  ELSE Exec(lines, i + 1, ExecLine(lines[i], st))

\* the body of a for-of or for-in loop for the k-th value on
ExecEach(values, k, name, body, st) ==
  IF st.err # "none" \/ k > Len(values) THEN st
  ELSE ExecEach(values, k + 1, name, body,
                AfterBlock(st, Exec(body, 1, [st EXCEPT !.env = Put(@, name, values[k])])))

\* for (let <name> = 0; <name> < <limit>; <name>++): index is the value of <name>
ExecFor(line, index, st) ==
  IF st.err # "none" THEN st
  ELSE IF ~(Get(st.env, line.limit).t = "number" /\ index < Get(st.env, line.limit).num) THEN st
  ELSE ExecFor(line, index + 1,
               AfterBlock(st, Exec(line.body, 1,
                                   [st EXCEPT !.env = Put(@, line.name, JNum(index))])))

ExecLine(line, st) ==
  LET written(r) == [st EXCEPT !.bw = r.bw, !.err = r.err]
      write(v) ==
        IF v.err # "none" THEN [st EXCEPT !.err = v.err]
        ELSE written(BufWriteValue(line.method, v.bw, v.value))
      forOf(v) ==
        IF v.err # "none" THEN [st EXCEPT !.err = v.err]
        ELSE IF v.value.t \notin {"array", "string"} THEN [st EXCEPT !.err = "TypeError"]
        ELSE ExecEach(Iterated(v.value), 1, line.name, line.body, st)
      keysOf(keys) == ExecEach([k \in 1..Len(keys) |-> JStr(keys[k])], 1, line.name, line.body, st)
      forIn(v) ==
        IF v.err # "none" THEN [st EXCEPT !.err = v.err] ELSE keysOf(Keys(v.value))
      const(v) ==
        IF v.err # "none" THEN [st EXCEPT !.err = v.err, !.bw = v.bw]
        ELSE [st EXCEPT !.env = Put(@, line.name, v.value), !.bw = v.bw]
      \* the object is looked up, then the right-hand side is evaluated, then
      \* the property is stored
      store(tokens, object, v) ==
        IF object.err # "none" THEN [st EXCEPT !.err = object.err]
        ELSE IF v.err # "none" THEN [st EXCEPT !.err = v.err, !.bw = v.bw]
        ELSE IF tokens[Len(tokens)].a = "[]" /\ ~Has(st.env, tokens[Len(tokens)].name)
        THEN [st EXCEPT !.err = "ReferenceError", !.bw = v.bw]
        ELSE IF object.value.t \notin {"object", "array"}
        THEN [st EXCEPT !.err = "TypeError", !.bw = v.bw]
        ELSE [st EXCEPT !.env = SetIn(st.env, tokens, 1, st.env, v.value), !.bw = v.bw]
      assign(tokens) ==
        store(tokens,
              IF ~Has(st.env, tokens[1].name)
              THEN [err |-> "ReferenceError", value |-> JUndefined]
              ELSE Walk(Get(st.env, tokens[1].name), tokens, 2, Len(tokens) - 1, st.env),
              Eval(line.value, st.env, st.bw))
  IN CASE line.op = "write" -> write(Eval(line.value, st.env, st.bw))
       [] line.op \in {"forOf", "forIn"} /\ InDeadZone(line.name, ParsePath(line.path)) ->
            [st EXCEPT !.err = "ReferenceError"]
       [] line.op = "forOf" -> forOf(EvalRef(line.path, st.env))
       [] line.op = "forIn" -> forIn(EvalRef(line.path, st.env))
       [] line.op = "const" -> const(Eval(line.value, st.env, st.bw))
       [] line.op = "for" -> ExecFor(line, 0, st)
       [] line.op = "assign" -> assign(ParsePath(line.path))

\* the emitted lines are a program: every text spliced in as an expression is
\* one, and no block declares a const twice
ExprOK(expr) ==
  CASE expr.e \in {"ref", "keysLength", "Number"} -> IsPath(expr.path)
    [] expr.e = "index" ->
         IsIdentifier(expr.enum) /\ (expr.index.e = "ref" => IsPath(expr.index.path))
    [] expr.e = "text" -> IsIndex(expr.text) \/ IsPath(expr.text)
    [] OTHER -> TRUE
RECURSIVE SyntaxOK(_)
SyntaxOK(lines) ==
  /\ \A i, j \in 1..Len(lines) :
       (i < j /\ lines[i].op = "const" /\ lines[j].op = "const") => lines[i].name # lines[j].name
  /\ \A i \in 1..Len(lines) :
       CASE lines[i].op = "write" -> ExprOK(lines[i].value)
         [] lines[i].op \in {"forOf", "forIn"} ->
              IsIdentifier(lines[i].name) /\ IsPath(lines[i].path) /\ SyntaxOK(lines[i].body)
         [] lines[i].op = "assign" -> IsPath(lines[i].path) /\ ExprOK(lines[i].value)
         [] lines[i].op = "const" -> IsIdentifier(lines[i].name) /\ ExprOK(lines[i].value)
         [] lines[i].op = "for" ->
              IsIdentifier(lines[i].name) /\ IsIdentifier(lines[i].limit)
                /\ SyntaxOK(lines[i].body)

----------------------------------------------------------------------------
(* The generated files: one packet class per packet, and the registries *)

\* values.indexOf(v)
IndexOf(values, v) ==
  (CHOOSE i \in 1..Len(values) :
     values[i] = v /\ \A j \in 1..Len(values) : values[j] = v => i <= j) - 1

RECURSIVE genEnums(_), genEnumsKeys(_, _)
\* the enum declarations genEnums pushes for the keys of data from the i-th on:
\* the name of each enum and its members, in the order of the values
genEnumsKeys(data, i) ==
  LET join(first, rest) ==
        IF first.err # "none" THEN first
        ELSE IF rest.err # "none" THEN rest
        ELSE Lines(first.lines \o rest.lines, 0)
      declared(name, values) ==
        IF values.t # "array" THEN GenThrow("TypeError", 0)
        ELSE Lines(<<[name |-> Text(name) \o "Enum",
                      members |-> [n \in 1..Len(values.items) |->
                                     [name |-> Text(values.items[n]),
                                      value |-> IndexOf(values.items, values.items[n])]]]>>,
                   0)
      of(item, type) ==
        IF type = JStr("enum") THEN declared(Get(item, "name"), Get(item, "values"))
        ELSE IF Truthy(Get(item, "data")) THEN genEnums(Get(item, "data"))
        ELSE IF Truthy(Get(item, "valueType")) THEN genEnums(Get(item, "valueType"))
        ELSE Lines(<<>>, 0)
      ofItem(item) == of(item, IF typeof(item) = "string" THEN item ELSE Get(item, "type"))
  IN IF i > Len(Keys(data)) THEN Lines(<<>>, 0)
     ELSE join(ofItem(Get(data, Keys(data)[i])), genEnumsKeys(data, i + 1))
genEnums(data) == genEnumsKeys(data, 1)

\* the file <name>Packet.ts: the id, the lines of write and of read, the enums
PacketFile(name, item, next) ==
  LET file(write, read, enums) ==
        [name |-> name, id |-> Get(item, "id"), direction |-> Get(item, "direction"),
         write |-> write.lines, read |-> read.lines, enums |-> enums.lines,
         next |-> write.next,
         err |-> IF write.err # "none" THEN write.err
                 ELSE IF read.err # "none" THEN read.err ELSE enums.err]
  IN file(genWriteCode(Get(item, "data"), JArr(<<>>), next),
          genReadCode(Get(item, "data"), <<>>),
          genEnums(Get(item, "data")))

RECURSIVE PacketFiles(_, _, _)
\* autobuf: the loop over the packets of spec, from the i-th on
PacketFiles(spec, i, next) ==
  LET join(file, rest) ==
        IF file.err # "none" THEN [files |-> <<>>, next |-> file.next, err |-> file.err]
        ELSE IF rest.err # "none" THEN rest
        ELSE [files |-> <<file>> \o rest.files, next |-> rest.next, err |-> "none"]
      from(file) == join(file, PacketFiles(spec, i + 1, file.next))
  IN IF i > Len(Keys(spec)) THEN [files |-> <<>>, next |-> next, err |-> "none"]
     ELSE from(PacketFile(Keys(spec)[i], Get(spec, Keys(spec)[i]), next))

\* registries that list a packet of direction both as incoming only
Registry_BothIsIncoming(files, side) ==
  SelectSeq(files, LAMBDA file :
    (file.direction = JStr("both") /\ side = "Incoming")
      \/ file.direction = JStr(IF side = "Incoming" THEN "incoming" ELSE "outgoing"))
\* index.ts: IncomingPackets and OutgoingPackets, in the order of the schema
Registry(files, side) ==
  SelectSeq(files, LAMBDA file :
    file.direction = JStr("both")
      \/ file.direction = JStr(IF side = "Incoming" THEN "incoming" ELSE "outgoing"))
\* a find that returns the last match
Find_Last(packets, id) ==
  LET found == {i \in 1..Len(packets) : packets[i].id = id}
  IN IF found = {} THEN 0 ELSE CHOOSE i \in found : \A j \in found : i >= j
\* a find that settles for the first packet of the registry
Find_First(packets, id) == IF packets = <<>> THEN 0 ELSE 1
\* Packets.find(p => p.id == id): the position of the first match, 0 if none
Find(packets, id) ==
  LET found == {i \in 1..Len(packets) : packets[i].id = id}
  IN IF found = {} THEN 0 ELSE CHOOSE i \in found : \A j \in found : i <= j

\* the object of a declared enum: its members by name and, in reverse, by value
RECURSIVE EnumObject(_, _, _)
EnumObject(members, i, object) ==
  IF i > Len(members) THEN object
  ELSE EnumObject(members, i + 1,
                  Put(Put(object, members[i].name, JNum(members[i].value)),
                      NumberText(members[i].value), JStr(members[i].name)))
RECURSIVE WithEnums(_, _, _)
\* the scope of a packet file: each declared enum under its name
WithEnums(env, enums, i) ==
  IF i > Len(enums) THEN env
  ELSE WithEnums(Put(env, enums[i].name,
                     EnumObject(enums[i].members, 1,
                                IF Has(env, enums[i].name) THEN Get(env, enums[i].name)
                                ELSE JObj(<<>>))),
                 enums, i + 1)
\* the file is a module that loads
FileLoads(file) ==
  /\ SyntaxOK(file.write) /\ SyntaxOK(file.read)
  /\ \A i \in 1..Len(file.enums) :
       /\ IsIdentifier(file.enums[i].name)
       /\ \A n \in 1..Len(file.enums[i].members) : IsIdentifier(file.enums[i].members[n].name)

\* <name>Packet.write(data)
PacketWrite(file, data) ==
  LET finished(done) == [err |-> done.err, bw |-> done.bw]
      after(body) ==
        IF body.err # "none" THEN [err |-> body.err, bw |-> body.bw]
        ELSE finished(finish(body.bw))
      lines(id, env) ==
        IF id.err # "none" THEN [err |-> id.err, bw |-> id.bw]
        ELSE after(Exec(file.write, 1, Running(env, id.bw)))
  IN lines(BufWriteValue("writeVarInt", BufWrapper(<<>>, TRUE), file.id),
           WithEnums(JObj(<<Field("this", JObj(<<Field("data", data)>>)),
                            Field("data", data)>>), file.enums, 1))

\* <name>Packet.read(), on the wrapper the registry has read the id from
PacketRead(file, w) ==
  LET returned(body) ==
        [err |-> body.err, bw |-> body.bw, data |-> Get(Get(body.env, "this"), "data")]
  IN returned(Exec(file.read, 1,
                   Running(WithEnums(JObj(<<Field("this", JObj(<<Field("data", JUndefined)>>))>>),
                                     file.enums, 1), w)))

\* index.ts: write<side>Packet(id, data)
writePacket(files, side, id, data) ==
  LET with(packets, found) ==
        IF \E i \in 1..Len(files) : ~FileLoads(files[i])
        THEN [err |-> "SyntaxError", bw |-> BufWrapper(<<>>, TRUE)]
        ELSE IF found = 0 THEN [err |-> "Error", bw |-> BufWrapper(<<>>, TRUE)]
        ELSE PacketWrite(packets[found], data)
      in(packets) == with(packets, Find(packets, id))
  IN in(Registry(files, side))

\* index.ts: read<side>Packet(data)
readPacket(files, side, bytes) ==
  LET returned(file, read) ==
        [err |-> read.err, bw |-> read.bw, id |-> file.id, data |-> read.data]
      thrown(err, id) == [err |-> err, bw |-> id.bw, id |-> JUndefined, data |-> JUndefined]
      with(packets, id, found) ==
        IF id.err # "none" THEN thrown(id.err, id)
        ELSE IF found = 0 THEN thrown("Error", id)
        ELSE returned(packets[found], PacketRead(packets[found], id.bw))
      of(packets, id) ==
        IF \E i \in 1..Len(files) : ~FileLoads(files[i]) THEN thrown("SyntaxError", id)
        ELSE with(packets, id, IF id.err = "none" THEN Find(packets, id.value) ELSE 0)
  IN of(Registry(files, side), BufReadValue("readVarInt", BufWrapper(bytes, FALSE)))

----------------------------------------------------------------------------
(* The codec at work: autobuf generates the files of a schema, a caller     *)
(* writes a packet through a registry, reads the bytes back through the     *)
(* same registry and writes the value it has read once more.  Writing the   *)
(* files to the output directory is left out.                               *)

\* the longest array and the most entries of a map among the packet values
MaxItems == 2

RecordOf(tree) == Typed("object", <<Field("data", tree)>>)
ArrayOf(data, rest) == Typed("array", <<Field("data", data)>> \o rest)
MapOf(keyType, valueType) == Typed("object", KeyValue(JStr(keyType), valueType))
Flags == JObj(<<Field("x", JStr("int")), Field("y", JStr("boolean"))>>)
Colour == Typed("enum", EnumOf(JStr("Colour"), JArr(<<JStr("Red"), JStr("Green")>>)))

\* the field trees of the packets
CodecTrees ==
  {JObj(<<>>),
   JObj(<<Field("x", JStr("varInt"))>>),
   JObj(<<Field("b", JStr("boolean")), Field("s", JStr("string")), Field("n", JStr("int"))>>),
   JObj(<<Field("data", JStr("boolean"))>>),
   JObj(<<Field("h", Typed("short", <<>>)), Field("l", JStr("long"))>>),
   JObj(<<Field("o", RecordOf(Flags))>>),
   JObj(<<Field("o", RecordOf(JObj(<<Field("x", JStr("boolean"))>>)))>>),
   JObj(<<Field("o", RecordOf(JObj(<<Field("data", JStr("boolean")),
                                     Field("y", JStr("boolean"))>>)))>>),
   JObj(<<Field("o", RecordOf(JObj(<<Field("p", RecordOf(Flags)), Field("z", JStr("varInt"))>>)))>>),
   JObj(<<Field("l", ArrayOf(JStr("varInt"), <<>>))>>),
   JObj(<<Field("l", ArrayOf(JStr("boolean"), <<Field("indexer", JStr("short"))>>)),
          Field("t", JStr("boolean"))>>),
   JObj(<<Field("l", ArrayOf(JStr("boolean"), <<Field("indexer", JNum(2))>>))>>),
   JObj(<<Field("l", ArrayOf(Flags, <<Field("indexer", JStr("int"))>>))>>),
   JObj(<<Field("l", ArrayOf(JObj(<<Field("x", JStr("boolean"))>>), <<>>))>>),
   JObj(<<Field("l", ArrayOf(JObj(<<Field("o", RecordOf(JObj(<<Field("a", JStr("boolean")),
                                                               Field("y", JStr("boolean"))>>))),
                                    Field("z", JStr("boolean"))>>), <<>>))>>),
   JObj(<<Field("m", MapOf("string", JStr("boolean")))>>),
   JObj(<<Field("m", MapOf("varInt", RecordOf(Flags)))>>),
   JObj(<<Field("m", MapOf("string", Colour))>>),
   JObj(<<Field("m", MapOf("string", MapOf("string", JStr("short"))))>>),
   JObj(<<Field("l", ArrayOf(JObj(<<Field("z", JStr("short")),
                                    Field("l", ArrayOf(JStr("boolean"), <<Field("indexer", JNum(2))>>))>>),
                             <<Field("indexer", JNum(2))>>))>>),
   JObj(<<Field("m", MapOf("string", RecordOf(JObj(<<Field("e", Colour)>>))))>>),
   JObj(<<Field("e", Colour)>>),
   JObj(<<Field("e", Colour), Field("f", JStr("boolean"))>>),
   JObj(<<Field("e", Colour), Field("g", Colour)>>),
   JObj(<<Field("e", Colour), Field("g", Typed("enum", EnumOf(JStr("Colour"), JArr(<<JStr("Green"), JStr("Red")>>))))>>),
   JObj(<<Field("w", Typed("enum", EnumOf(JStr("Size"), JArr(<<JStr("S"), JStr("M")>>))
                                     \o <<Field("valueType", JStr("int"))>>))>>),
   JObj(<<Field("l", ArrayOf(JStr("boolean"), <<Field("indexer", JStr("long"))>>))>>),
   JObj(<<Field("l", ArrayOf(JStr("boolean"), <<Field("indexer", JStr("varInt"))>>))>>)}

RECURSIVE ValuesOfItem(_), FieldsOf(_, _)
\* the values a caller can give a field of the descriptor
ValuesOfItem(rawItem) ==
  LET keysOf(keyType) == IF MapsToNumber(keyType) THEN <<"1", "20", "21", "300">> ELSE <<"k", "q", "r", "z">>
      records(data) == {JObj(fields) : fields \in FieldsOf(data.fields, 1)}
      arrays(indexer, elements) ==
        IF indexer.t = "number"
        THEN {JArr(items) : items \in [1..indexer.num -> elements]}
        ELSE {JArr(items) : items \in SeqsUpTo(elements, MaxItems)}
      maps(keys, elements) ==
        {JObj([n \in 1..Len(values) |-> Field(keys[n], values[n])]) :
           values \in SeqsUpTo(elements, MaxItems)}
      of(item, type, data) ==
        CASE type = "boolean" -> {JBool(TRUE), JBool(FALSE)}
          [] type = "varInt" -> {JNum(0), JNum(300)}
          [] type = "int" -> {JNum(-2), JNum(7)}
          [] type = "short" -> {JNum(258)}
          [] type = "long" -> {JNum(-1)}
          [] type = "string" -> {JStr(""), JStr("hi")}
          [] type = "array" ->
               arrays(Get(item, "indexer"),
                      IF data.t = "string" THEN ValuesOfItem(data) ELSE records(data))
          [] type = "object" /\ Truthy(data) -> records(data)
          [] type = "object" ->
               maps(keysOf(Get(item, "keyType")), ValuesOfItem(Get(item, "valueType")))
          [] type = "enum" -> {Get(item, "values").items[n] : n \in 1..Len(Get(item, "values").items)}
      ofItem(item) == of(item, Get(item, "type").str, Get(item, "data"))
  IN ofItem(ItemOf(rawItem))
\* the fields of the values of a field tree, from its i-th field on
FieldsOf(fields, i) ==
  IF i > Len(fields) THEN {<<>>}
  ELSE {<<Field(fields[i][1], value)>> \o rest :
          value \in ValuesOfItem(fields[i][2]), rest \in FieldsOf(fields, i + 1)}
ValuesOf(tree) == {JObj(fields) : fields \in FieldsOf(tree.fields, 1)}

\* two field trees with array loops: two arrays side by side, and an array of
\* records with an array each
Lists ==
  JObj(<<Field("l", ArrayOf(JStr("boolean"), <<Field("indexer", JNum(1))>>)),
         Field("n", ArrayOf(JStr("boolean"), <<Field("indexer", JNum(1))>>))>>)
Grid ==
  JObj(<<Field("rows", ArrayOf(JObj(<<Field("z", JStr("boolean")),
                                      Field("cells", ArrayOf(JStr("boolean"), <<Field("indexer", JNum(1))>>))>>),
                               <<Field("indexer", JNum(1))>>))>>)

\* a schema of one packet, and schemas of two
CodecSchemas ==
  {JObj(<<Field("P", PacketOf(JNum(id), JStr("both"), tree))>>) :
     id \in {1, 300}, tree \in CodecTrees}
    \cup {JObj(<<Field("In", PacketOf(JNum(1), JStr("incoming"), JObj(<<Field("x", JStr("varInt"))>>))),
                 Field("Out", PacketOf(JNum(2), JStr("outgoing"), Flags))>>),
          JObj(<<Field("A", PacketOf(JNum(1), JStr("both"), Lists)),
                 Field("B", PacketOf(JNum(2), JStr("both"), Grid))>>),
          JObj(<<Field("B", PacketOf(JNum(2), JStr("both"), Grid)),
                 Field("A", PacketOf(JNum(1), JStr("both"), Lists))>>)}

\* a call on a registry and what it leaves
CodecCall(op, err, id, data, bytes) ==
  [op |-> op, err |-> err, id |-> id, data |-> data, bytes |-> bytes]

InitCodec ==
  /\ pc = "spec"
  /\ \E spec \in CodecSchemas : \E n \in 1..Len(Keys(spec)) :
       \E data \in ValuesOf(Get(Get(spec, Keys(spec)[n]), "data")) :
         \E side \in {"Incoming", "Outgoing"} :
           arg = [spec |-> spec, name |-> Keys(spec)[n], side |-> side, data |-> data]
  /\ bw = None
  /\ ret = CodecCall("none", "none", JUndefined, JUndefined, <<>>)
  /\ loc = [next |-> resetNextChar, files |-> <<>>]

\* autobuf(spec, output): verification, then the files
Generate ==
  /\ pc = "spec"
  /\ LET generated(files) ==
           /\ pc' = IF files.err = "none" THEN "generated" ELSE "threw"
           /\ loc' = [next |-> files.next, files |-> files.files]
     IN IF isValidProtocolSpec(arg.spec) # "true" THEN pc' = "threw" /\ loc' = loc
        ELSE generated(PacketFiles(arg.spec, 1, loc.next))
  /\ UNCHANGED <<arg, bw, ret>>

\* write<side>Packet(id, data), with the id of the packet the caller sends
WritePacket ==
  /\ pc = "generated"
  /\ LET written(id, r) ==
           /\ bw' = r.bw
           /\ ret' = CodecCall("write", r.err, id, arg.data, r.bw.buffer)
         with(id) == written(id, writePacket(loc.files, arg.side, id, arg.data))
     IN with(Get(Get(arg.spec, arg.name), "id"))
  /\ pc' = "written"
  /\ UNCHANGED <<arg, loc>>

\* read<side>Packet(data), on the bytes of the packet written
ReadPacket ==
  /\ pc = "written"
  /\ ret.err = "none"
  /\ LET read(r) ==
           /\ bw' = r.bw
           /\ ret' = CodecCall("read", r.err, r.id, r.data, ret.bytes)
     IN read(readPacket(loc.files, arg.side, ret.bytes))
  /\ pc' = "read"
  /\ UNCHANGED <<arg, loc>>

\* write<side>Packet(id, data), with what the read has returned
WriteAgain ==
  /\ pc = "read"
  /\ ret.err = "none"
  /\ LET written(r) == ret' = CodecCall("rewrite", r.err, ret.id, ret.data, r.bw.buffer)
     IN written(writePacket(loc.files, arg.side, ret.id, ret.data))
  /\ pc' = "rewritten"
  /\ UNCHANGED <<arg, bw, loc>>

NextCodec == Generate \/ WritePacket \/ ReadPacket \/ WriteAgain

SpecCodec == InitCodec /\ [][NextCodec]_vars

----------------------------------------------------------------------------
(* Claims on the codec (SpecCodec) *)

\* C1: for an accepted schema, a packet of it and a value of the packet's
\* shape, reading the written bytes back through the registry returns a value
\* deep-equal to the value written, and writing the value read gives the bytes
\* again.
C1_RegistryRoundTrip ==
  /\ pc = "read" => ret.err = "none" /\ DeepEqual(ret.data, arg.data)
  /\ pc = "rewritten" => ret.err = "none" /\ ret.bytes = bw.buffer

\* A visit of a program: the role of the operation (a field, an enum, the
\* length of an array, the count or a key of a map), its kind (the wire type
\* of the BufWrapper method) and the location of the record it is about: the
\* field names from the root of the record, "[]" for the element of an array
\* and "{}" for the value of a map entry.  A path whose root is no binding in
\* reach, or whose index is none, has the location <<"?", its text>>.
Visit(role, kind, at) == [role |-> role, kind |-> kind, at |-> at]
\* the wire type of this.buf.write<Type> and of this.buf.read<Type>
WriteKind(method) == SubSeq(method, 6, Len(method))
ReadKind(method) == SubSeq(method, 5, Len(method))
\* what the bindings in reach stand for: the name of a binding, the location
\* of its value, and whether it is a record ("value"), an array index
\* ("index") or a map key ("key")
Bind(scope, name, as, at) == <<[name |-> name, as |-> as, at |-> at]>> \o scope
Bound(scope, name) == \E i \in 1..Len(scope) : scope[i].name = name
Binding(scope, name) ==
  scope[CHOOSE i \in 1..Len(scope) :
          scope[i].name = name /\ \A j \in 1..Len(scope) : scope[j].name = name => i <= j]

RECURSIVE Along(_, _, _, _)
\* the location the accessors tokens[i ..] lead to from the location at
Along(tokens, i, at, scope) ==
  IF i > Len(tokens) THEN at
  ELSE IF tokens[i].a = "." THEN Along(tokens, i + 1, Append(at, tokens[i].name), scope)
  ELSE IF tokens[i].a = "[]" /\ Bound(scope, tokens[i].name)
          /\ Binding(scope, tokens[i].name).as = "index"
  THEN Along(tokens, i + 1, Append(at, "[]"), scope)
  ELSE IF tokens[i].a = "[]" /\ Bound(scope, tokens[i].name)
          /\ Binding(scope, tokens[i].name).as = "key"
  THEN Along(tokens, i + 1, Append(at, "{}"), scope)
  ELSE <<"?", tokens[i].name>>
\* the location of a path of the write program: its root is the parameter
\* data or the binding of a loop
WriteLocation(path, scope) ==
  LET tokens == ParsePath(path)
  IN IF tokens # <<>> /\ Bound(scope, tokens[1].name)
        /\ Binding(scope, tokens[1].name).as = "value"
     THEN Along(tokens, 2, Binding(scope, tokens[1].name).at, scope)
     ELSE <<"?", path>>
\* the location of a path of the read program: its root is this.data
ReadLocation(path, scope) ==
  LET tokens == ParsePath(path)
  IN IF Len(tokens) >= 2 /\ tokens[1].name = "this" /\ tokens[2] = [a |-> ".", name |-> "data"]
     THEN Along(tokens, 3, <<>>, scope)
     ELSE <<"?", path>>

RECURSIVE WriteVisits(_, _, _)
\* the visits of the lines of a write program from the i-th on, in the order
\* of the program
WriteVisits(lines, i, scope) ==
  IF i > Len(lines) THEN <<>>
  ELSE LET line == lines[i]
           here ==
             CASE line.op = "write" /\ line.value.e = "ref" ->
                    IF i < Len(lines) /\ lines[i + 1].op = "forOf"
                       /\ line.value.path = lines[i + 1].path \o ".length"
                    THEN <<Visit("length", WriteKind(line.method),
                                 WriteLocation(lines[i + 1].path, scope))>>
                    ELSE IF Bound(scope, line.value.path)
                            /\ Binding(scope, line.value.path).as = "key"
                    THEN <<Visit("key", WriteKind(line.method), <<>>)>>
                    ELSE <<Visit("field", WriteKind(line.method),
                                 WriteLocation(line.value.path, scope))>>
               [] line.op = "write" /\ line.value.e = "keysLength" ->
                    <<Visit("count", WriteKind(line.method), <<>>)>>
               [] line.op = "write" /\ line.value.e = "Number" ->
                    <<Visit("key", WriteKind(line.method), <<>>)>>
               [] line.op = "write" /\ line.value.e = "index" ->
                    <<Visit("enum", WriteKind(line.method),
                            WriteLocation(line.value.index.path, scope))>>
               [] line.op = "forOf" ->
                    WriteVisits(line.body, 1,
                                Bind(scope, line.name, "value",
                                     Append(WriteLocation(line.path, scope), "[]")))
               [] line.op = "forIn" ->
                    WriteVisits(line.body, 1, Bind(scope, line.name, "key", <<>>))
               [] OTHER -> <<>>
       IN here \o WriteVisits(lines, i + 1, scope)

RECURSIVE ReadVisits(_, _, _)
\* the visits of the lines of a read program from the i-th on.  The lines that
\* set a record or an array up read nothing and are no visits; a length that
\* is a number of the schema is none either.
ReadVisits(lines, i, scope) ==
  IF i > Len(lines) THEN <<>>
  ELSE LET line == lines[i]
           isKey == line.op = "const" /\ line.name = "key"
           here ==
             CASE line.op = "assign" /\ line.value.e = "read" ->
                    <<Visit("field", ReadKind(line.value.method), ReadLocation(line.path, scope))>>
               [] line.op = "assign" /\ line.value.e = "index" ->
                    <<Visit("enum", ReadKind(line.value.index.method),
                            ReadLocation(line.path, scope))>>
               [] isKey /\ line.value.e = "read" ->
                    <<Visit("key", ReadKind(line.value.method), <<>>)>>
               [] line.op = "const" /\ ~isKey /\ line.value.e = "read" ->
                    IF i > 1 /\ lines[i - 1].op = "assign" /\ lines[i - 1].value.e = "array"
                    THEN <<Visit("length", ReadKind(line.value.method),
                                 ReadLocation(lines[i - 1].path, scope))>>
                    ELSE <<Visit("count", ReadKind(line.value.method), <<>>)>>
               [] line.op = "for" ->
                    ReadVisits(line.body, 1, Bind(scope, line.name, "index", <<>>))
               [] OTHER -> <<>>
       IN here \o ReadVisits(lines, i + 1,
                             IF isKey THEN Bind(scope, "key", "key", <<>>) ELSE scope)

\* the visits of the two programs of a packet file
VisitsOfWrite(file) == WriteVisits(file.write, 1, Bind(<<>>, "data", "value", <<>>))
VisitsOfRead(file) == ReadVisits(file.read, 1, <<>>)

\* C2: the write program and the read program of every generated packet file
\* visit the same locations of the record, in the same order, with the same
\* kinds of operation, whatever the fields are called.
C2_SameVisits ==
  \A i \in 1..Len(loc.files) : VisitsOfWrite(loc.files[i]) = VisitsOfRead(loc.files[i])

\* The encoding of a value of a scalar type: what its writer appends
Encoded(method, v) ==
  LET written == BufWriteValue(method, BufWrapper(<<>>, TRUE), v)
  IN Flatten(written.bw.buffers)

RECURSIVE EncodingOfItem(_, _), EncodingOfFields(_, _, _), EncodingOfEach(_, _, _),
          EncodingOfEntries(_, _, _)
\* the encoding of the value v of a field of the descriptor rawItem
EncodingOfItem(rawItem, v) ==
  LET item == ItemOf(rawItem)
      type == Get(item, "type").str
      indexer == Get(item, "indexer")
  IN CASE type = "array" ->
            (IF indexer.t = "number" THEN <<>>
             ELSE Encoded("write" \o capitalize(IF Truthy(indexer) THEN indexer.str ELSE "varInt"),
                          JNum(Len(v.items))))
              \o EncodingOfEach(Get(item, "data"), v.items, 1)
       [] type = "object" /\ Truthy(Get(item, "data")) ->
            EncodingOfFields(Get(item, "data"), v, 1)
       [] type = "object" ->
            Encoded("writeVarInt", JNum(Len(v.fields))) \o EncodingOfEntries(item, v, 1)
       [] type = "enum" ->
            Encoded("write" \o capitalize(OrShort(Get(item, "valueType")).str),
                    JNum(IndexOf(Get(item, "values").items, v)))
       [] OTHER -> Encoded("write" \o capitalize(type), v)
\* the encodings of the fields of a record, in the order the tree declares them
EncodingOfFields(tree, v, i) ==
  IF i > Len(Keys(tree)) THEN <<>>
  ELSE EncodingOfItem(Get(tree, Keys(tree)[i]), Get(v, Keys(tree)[i]))
         \o EncodingOfFields(tree, v, i + 1)
\* the encodings of the elements of an array: records of the tree data, or
\* values of the scalar type data
EncodingOfEach(data, items, i) ==
  IF i > Len(items) THEN <<>>
  ELSE (IF data.t = "string" THEN EncodingOfItem(data, items[i])
        ELSE EncodingOfFields(data, items[i], 1))
         \o EncodingOfEach(data, items, i + 1)
\* the encodings of the entries of a map: the key, then the value
EncodingOfEntries(item, v, i) ==
  IF i > Len(v.fields) THEN <<>>
  ELSE Encoded("write" \o capitalize(Get(item, "keyType").str),
               IF MapsToNumber(Get(item, "keyType"))
               THEN JNum(NumberOfText(v.fields[i][1])) ELSE JStr(v.fields[i][1]))
         \o EncodingOfItem(Get(item, "valueType"), v.fields[i][2])
         \o EncodingOfEntries(item, v, i + 1)

\* C3: the bytes of a written packet are the varint of the id of the packet,
\* then the encodings of its fields in the order the schema declares them,
\* the fields of a nested record in line, and no other byte.
C3_WireFormat ==
  (pc = "written" /\ ret.err = "none") =>
    bw.buffer = Encoded("writeVarInt", Get(Get(arg.spec, arg.name), "id"))
                  \o EncodingOfFields(Get(Get(arg.spec, arg.name), "data"), arg.data, 1)

----------------------------------------------------------------------------
(* Claims on enum fields and on the lengths of arrays (SpecCodec) *)

\* the field tree of the packet the caller sends
SentTree == Get(Get(arg.spec, arg.name), "data")
\* the positions of the fields of a tree that are enums
EnumFields(tree) ==
  {i \in 1..Len(Keys(tree)) : Get(ItemOf(Get(tree, Keys(tree)[i])), "type") = JStr("enum")}
\* the fields of the tree are scalars and enums
IsFlat(tree) ==
  \A i \in 1..Len(Keys(tree)) :
    Get(ItemOf(Get(tree, Keys(tree)[i])), "type").str \notin {"array", "object"}
\* where the i-th field of the packet written starts among its bytes
StartOfField(tree, v, i) ==
  Len(Encoded("writeVarInt", Get(Get(arg.spec, arg.name), "id")))
    + Len(EncodingOfFields(tree, v, 1)) - Len(EncodingOfFields(tree, v, i))
\* the ordinal of the value of an enum field, at the backing width of the enum
OrdinalBytes(rawItem, v) ==
  Encoded("write" \o capitalize(OrShort(Get(rawItem, "valueType")).str),
          JNum(IndexOf(Get(rawItem, "values").items, v)))

\* C18: in a packet of scalar and enum fields, the write of an enum field
\* whose value is values[k] puts k at the place of the field, in the backing
\* width of the enum (short when none is configured), and the read of the
\* bytes gives the field the value values[k] again, whatever the other
\* fields and enums of the packet.
C18_EnumOrdinals ==
  (IsFlat(SentTree) /\ EnumFields(SentTree) # {}) =>
    /\ pc = "written" =>
         /\ ret.err = "none"
         /\ \A i \in EnumFields(SentTree) :
              SubSeq(bw.buffer,
                     StartOfField(SentTree, arg.data, i) + 1,
                     StartOfField(SentTree, arg.data, i)
                       + Len(OrdinalBytes(Get(SentTree, Keys(SentTree)[i]),
                                          Get(arg.data, Keys(SentTree)[i]))))
                = OrdinalBytes(Get(SentTree, Keys(SentTree)[i]), Get(arg.data, Keys(SentTree)[i]))
    /\ pc = "read" =>
         /\ ret.err = "none"
         /\ \A i \in EnumFields(SentTree) :
              Get(ret.data, Keys(SentTree)[i]) = Get(arg.data, Keys(SentTree)[i])

\* the length encoding of an array by its indexer: the wire type of the
\* count, "none" for a count that is not on the wire
LengthKind(indexer) ==
  CASE indexer.t \in {"undefined", "null"} -> "VarInt"
    [] indexer = JStr("varInt") -> "VarInt"
    [] indexer = JStr("int") -> "Int"
    [] indexer = JStr("short") -> "Short"
    [] indexer = JStr("long") -> "Long"
    [] OTHER -> "none"
\* the count of an array in a program: the wire type it is written or read
\* with, or the literal the loop runs to
Count(kind, literal) == [kind |-> kind, literal |-> literal]
CountOf(indexer) ==
  Count(LengthKind(indexer), IF LengthKind(indexer) = "none" THEN Text(indexer) ELSE "")

RECURSIVE ArraysOfItem(_), ArraysOfTree(_, _)
\* the counts of the arrays of a field, the outer before the inner
ArraysOfItem(rawItem) ==
  CASE Get(ItemOf(rawItem), "type") = JStr("array") ->
         <<CountOf(Get(rawItem, "indexer"))>>
           \o (IF Get(rawItem, "data").t = "string" THEN <<>>
               ELSE ArraysOfTree(Get(rawItem, "data"), 1))
    [] Get(ItemOf(rawItem), "type") = JStr("object") /\ Truthy(Get(rawItem, "data")) ->
         ArraysOfTree(Get(rawItem, "data"), 1)
    [] Get(ItemOf(rawItem), "type") = JStr("object") ->
         ArraysOfItem(Get(rawItem, "valueType"))
    [] OTHER -> <<>>
\* the counts of the arrays of a field tree from its i-th field on, in the
\* order of the fields
ArraysOfTree(tree, i) ==
  IF i > Len(Keys(tree)) THEN <<>>
  ELSE ArraysOfItem(Get(tree, Keys(tree)[i])) \o ArraysOfTree(tree, i + 1)

RECURSIVE WriteCounts(_, _)
\* the wire type the write program writes the count of each of its array
\* loops with, "none" where it writes no count before the loop
WriteCounts(lines, i) ==
  IF i > Len(lines) THEN <<>>
  ELSE (CASE lines[i].op = "forOf" ->
               <<IF i > 1 /\ lines[i - 1].op = "write"
                    /\ lines[i - 1].value = Ref(lines[i].path \o ".length")
                 THEN WriteKind(lines[i - 1].method) ELSE "none">>
                 \o WriteCounts(lines[i].body, 1)
          [] lines[i].op = "forIn" -> WriteCounts(lines[i].body, 1)
          [] OTHER -> <<>>)
         \o WriteCounts(lines, i + 1)
RECURSIVE ReadCounts(_, _)
\* the count the read program runs each of its array loops to: the wire type
\* it reads the count with, or the literal it takes for it
ReadCounts(lines, i) ==
  IF i > Len(lines) THEN <<>>
  ELSE (CASE lines[i].op = "for" /\ i > 2 /\ lines[i - 2].op = "assign"
             /\ lines[i - 2].value = NewArray /\ lines[i - 1].op = "const"
             /\ lines[i].limit = lines[i - 1].name ->
               <<IF lines[i - 1].value.e = "read"
                 THEN Count(ReadKind(lines[i - 1].value.method), "")
                 ELSE Count("none", lines[i - 1].value.text)>>
                 \o ReadCounts(lines[i].body, 1)
          [] lines[i].op = "for" -> ReadCounts(lines[i].body, 1)
          [] OTHER -> <<>>)
         \o ReadCounts(lines, i + 1)
\* the field tree of the packet of a generated file
TreeOf(file) == Get(Get(arg.spec, file.name), "data")
\* the bytes start with the given ones
StartsWith(bytes, first) ==
  Len(first) <= Len(bytes) /\ SubSeq(bytes, 1, Len(first)) = first
\* the array a packet has as its first field l
FirstIsArray == Keys(SentTree) # <<>> /\ Keys(SentTree)[1] = "l"

\* C20: the write program writes the count of each array with the length
\* encoding of its indexer, varInt when it has none, and the read program
\* reads the count with the same encoding; for an indexer that is none of
\* varInt, int, short and long the write program writes no count and the read
\* program runs its loop to the indexer, taken literally.  So the bytes of a
\* packet whose first field is an array start, after the id, with the count
\* in that encoding, and the array read has as many elements as were
\* written, or as the literal says.
C20_ArrayLengthEncoding ==
  /\ \A i \in 1..Len(loc.files) :
       /\ WriteCounts(loc.files[i].write, 1)
            = [k \in 1..Len(ArraysOfTree(TreeOf(loc.files[i]), 1)) |->
                 ArraysOfTree(TreeOf(loc.files[i]), 1)[k].kind]
       /\ ReadCounts(loc.files[i].read, 1) = ArraysOfTree(TreeOf(loc.files[i]), 1)
  /\ (pc = "written" /\ ret.err = "none" /\ FirstIsArray
        /\ LengthKind(Get(Get(SentTree, "l"), "indexer")) # "none") =>
       StartsWith(bw.buffer,
                  Encoded("writeVarInt", Get(Get(arg.spec, arg.name), "id"))
                    \o Encoded("write" \o LengthKind(Get(Get(SentTree, "l"), "indexer")),
                               JNum(Len(Get(arg.data, "l").items))))
  /\ (pc = "read" /\ ret.err = "none" /\ FirstIsArray) =>
       Len(Get(ret.data, "l").items)
         = IF LengthKind(Get(Get(SentTree, "l"), "indexer")) = "none"
           THEN Get(Get(SentTree, "l"), "indexer").num
           ELSE Len(Get(arg.data, "l").items)
\* an array with a literal count has been written without a count and read
C20_Witness ==
  /\ pc = "read" /\ ret.err = "none" /\ FirstIsArray
  /\ Get(Get(SentTree, "l"), "indexer") = JNum(2)
  /\ Len(bw.buffer) = Len(Encoded("writeVarInt", Get(Get(arg.spec, arg.name), "id"))) + 2
  /\ Len(Get(ret.data, "l").items) = 2

----------------------------------------------------------------------------
(* Claims on map fields (SpecCodec) *)

RECURSIVE VisitsOfItem(_, _), VisitsOfTree(_, _, _)
\* the visits the schema asks of a program for the field of a descriptor at
\* the location at: a scalar is one operation of its type, an enum one of its
\* backing type, a record its fields in line, an array its length and then
\* its elements, a map its count, then the key and the value of an entry
VisitsOfItem(rawItem, at) ==
  LET item == ItemOf(rawItem)
      type == Get(item, "type").str
  IN CASE type = "array" ->
            (IF LengthKind(Get(item, "indexer")) = "none" THEN <<>>
             ELSE <<Visit("length", LengthKind(Get(item, "indexer")), at)>>)
              \o (IF Get(item, "data").t = "string"
                  THEN VisitsOfItem(Get(item, "data"), Append(at, "[]"))
                  ELSE VisitsOfTree(Get(item, "data"), Append(at, "[]"), 1))
       [] type = "object" /\ Truthy(Get(item, "data")) ->
            VisitsOfTree(Get(item, "data"), at, 1)
       [] type = "object" ->
            <<Visit("count", "VarInt", <<>>),
              Visit("key", capitalize(Get(item, "keyType").str), <<>>)>>
              \o VisitsOfItem(Get(item, "valueType"), Append(at, "{}"))
       [] type = "enum" ->
            <<Visit("enum", capitalize(OrShort(Get(item, "valueType")).str), at)>>
       [] OTHER -> <<Visit("field", capitalize(type), at)>>
VisitsOfTree(tree, at, i) ==
  IF i > Len(Keys(tree)) THEN <<>>
  ELSE VisitsOfItem(Get(tree, Keys(tree)[i]), Append(at, Keys(tree)[i]))
         \o VisitsOfTree(tree, at, i + 1)

\* the descriptor is a map: an object with keyType and valueType and no data
IsMap(rawItem) ==
  /\ Get(ItemOf(rawItem), "type") = JStr("object")
  /\ ~Truthy(Get(rawItem, "data"))
\* the tree has a map as its first field
FirstIsMap(tree) == Keys(tree) # <<>> /\ IsMap(Get(tree, Keys(tree)[1]))

RECURSIVE WriteMapLoops(_), ReadMapLoops(_)
\* every map loop of a write program comes right after the write of a varint
\* count of the keys of the map it runs over, and starts with the write of
\* the key
WriteMapLoops(lines) ==
  \A i \in 1..Len(lines) :
    CASE lines[i].op = "forIn" ->
           /\ i > 1
           /\ lines[i - 1] = BufWrite("writeVarInt", KeysLengthOf(lines[i].path))
           /\ lines[i].body # <<>>
           /\ lines[i].body[1].op = "write"
           /\ lines[i].body[1].value \in {Ref(lines[i].name), NumberOf(lines[i].name)}
           /\ \A k \in 2..Len(lines[i].body) :
                lines[i].body[k].op = "write" =>
                  lines[i].body[k].value \notin {Ref(lines[i].name), NumberOf(lines[i].name)}
           /\ WriteMapLoops(lines[i].body)
      [] lines[i].op = "forOf" -> WriteMapLoops(lines[i].body)
      [] OTHER -> TRUE
\* every loop of a read program that reads a key runs to a varint count read
\* right before it, reads the key first and once, and assigns below it only
\* to paths that end in [key] or pass through it
ReadMapLoops(lines) ==
  \A i \in 1..Len(lines) :
    IF lines[i].op # "for" THEN TRUE
    ELSE /\ ReadMapLoops(lines[i].body)
         /\ (\E k \in 1..Len(lines[i].body) :
               lines[i].body[k].op = "const" /\ lines[i].body[k].name = "key") =>
              /\ i > 1
              /\ lines[i - 1] = Const(lines[i].limit, BufRead("readVarInt"))
              /\ lines[i].body[1].op = "const" /\ lines[i].body[1].name = "key"
              /\ lines[i].body[1].value.e = "read"
              /\ \A k \in 2..Len(lines[i].body) :
                   /\ ~(lines[i].body[k].op = "const" /\ lines[i].body[k].name = "key")
                   /\ lines[i].body[k].op = "assign" =>
                        \E n \in 1..Len(ParsePath(lines[i].body[k].path)) :
                          ParsePath(lines[i].body[k].path)[n] = [a |-> "[]", name |-> "key"]

----------------------------------------------------------------------------
(* Claims on the enum declarations of a packet file (SpecCodec) *)

RECURSIVE EnumNamesOfItem(_), EnumNamesOfTree(_)
\* the names of the enums a field refers to: its own when it is an enum, those
\* of its fields when it is a record, of its elements when it is an array, of
\* its value type when it is a map
EnumNamesOfItem(rawItem) ==
  LET item == ItemOf(rawItem)
      type == Get(item, "type").str
  IN CASE type = "enum" -> {Text(Get(item, "name"))}
       [] type = "array" ->
            IF Get(item, "data").t = "string" THEN {}
            ELSE EnumNamesOfTree(Get(item, "data"))
       [] type = "object" /\ Truthy(Get(item, "data")) -> EnumNamesOfTree(Get(item, "data"))
       [] type = "object" -> EnumNamesOfItem(Get(item, "valueType"))
       [] OTHER -> {}
EnumNamesOfTree(tree) ==
  UNION {EnumNamesOfItem(Get(tree, Keys(tree)[i])) : i \in 1..Len(Keys(tree))}

\* C22: the enum declarations of a generated packet file are one for each
\* distinct enum name of the field tree of the packet, however many fields
\* refer to the name, and no other.
C22_OneEnumPerName ==
  \A i \in 1..Len(loc.files) :
    /\ {loc.files[i].enums[k].name : k \in 1..Len(loc.files[i].enums)}
         = {name \o "Enum" : name \in EnumNamesOfTree(TreeOf(loc.files[i]))}
    /\ \A k, n \in 1..Len(loc.files[i].enums) :
         loc.files[i].enums[k].name = loc.files[i].enums[n].name => k = n

----------------------------------------------------------------------------
(* Claims on the programs of a packet among other packets (SpecCodec) *)

\* the file of a packet synthesized on its own: the only packet of a schema
Alone(name) == PacketFiles(JObj(<<Field(name, Get(arg.spec, name))>>), 1, resetNextChar).files[1]
\* the names of the loop bindings of a write program, the outer before the inner
RECURSIVE BindingsOf(_, _)
BindingsOf(lines, i) ==
  IF i > Len(lines) THEN <<>>
  ELSE (IF lines[i].op \in {"forOf", "forIn"}
        THEN <<lines[i].name>> \o BindingsOf(lines[i].body, 1) ELSE <<>>)
         \o BindingsOf(lines, i + 1)

\* C23: the write program and the read program of every packet file are the
\* ones the packet gets when it is the only packet of the schema, whatever
\* packets come before it and in whatever order: the names of the loop
\* bindings start anew with every packet.
C23_ProgramsOfThePacketAlone ==
  \A i \in 1..Len(loc.files) :
    /\ loc.files[i].write = Alone(loc.files[i].name).write
    /\ loc.files[i].read = Alone(loc.files[i].name).read
\* two packets with array loops have been synthesized one after the other, and
\* the bindings of the second start with the first name again
C23_Witness ==
  /\ pc = "generated" /\ Len(loc.files) = 2
  /\ Len(BindingsOf(loc.files[1].write, 1)) = 2
  /\ Len(BindingsOf(loc.files[2].write, 1)) = 2
  /\ BindingsOf(loc.files[2].write, 1)[1] = getNextChar(resetNextChar).name

----------------------------------------------------------------------------
(* Claims on the bindings of nested loops (SpecCodec) *)

\* the bindings a loop brings into its body and addresses paths through: the
\* name of a for-of or for-in loop; the index of a counted loop and, when the
\* body reads the key of a map entry, key
BindingsOfLoop(line) ==
  IF line.op \in {"forOf", "forIn"} THEN {line.name}
  ELSE {line.name}
         \cup {line.body[k].name : k \in {k \in 1..Len(line.body) :
                                            line.body[k].op = "const" /\ line.body[k].name = "key"}}
RECURSIVE FreshBindings(_, _)
\* no loop of the lines, at any depth, brings in a binding that a loop around
\* it, or one of enclosing, has brought in
FreshBindings(lines, enclosing) ==
  \A i \in 1..Len(lines) :
    lines[i].op \in {"forOf", "forIn", "for"} =>
      /\ BindingsOfLoop(lines[i]) \cap enclosing = {}
      /\ FreshBindings(lines[i].body, enclosing \cup BindingsOfLoop(lines[i]))

\* C25: in the write program and in the read program of every packet file, a
\* loop inside another loop has a binding of its own: none of the names it
\* addresses its paths through is a name of a loop around it.
C25_NestedLoopsHaveOwnBindings ==
  \A i \in 1..Len(loc.files) :
    /\ FreshBindings(loc.files[i].write, {})
    /\ FreshBindings(loc.files[i].read, {})

----------------------------------------------------------------------------
(* Claims on the containers of a read program (SpecCodec) *)

RECURSIVE CreatedBefore(_, _, _)
\* every assignment of the lines from the i-th on goes to a path whose
\* containers, this.data and each record, array or map on the way down, have
\* been assigned an empty object or array by a line before it, in its block
\* or in a block around it.  created holds the paths assigned so far.
CreatedBefore(lines, i, created) ==
  IF i > Len(lines) THEN TRUE
  ELSE LET line == lines[i]
           tokens == IF line.op = "assign" THEN ParsePath(line.path) ELSE <<>>
       IN CASE line.op = "assign" ->
                 /\ \A n \in 2..(Len(tokens) - 1) : SubSeq(tokens, 1, n) \in created
                 /\ CreatedBefore(lines, i + 1,
                                  IF line.value \in {NewObject, NewArray}
                                  THEN created \cup {tokens} ELSE created)
            [] line.op = "for" ->
                 CreatedBefore(line.body, 1, created) /\ CreatedBefore(lines, i + 1, created)
            [] OTHER -> CreatedBefore(lines, i + 1, created)

\* C26: in the read program of every packet file each record, array and map
\* is assigned at its path before a line assigns beneath it, and the read of
\* the bytes of a written packet never fails on a container that is not
\* there.
C26_ContainersCreatedFirst ==
  /\ \A i \in 1..Len(loc.files) : CreatedBefore(loc.files[i].read, 1, {})
  /\ pc = "read" => ret.err # "TypeError"

----------------------------------------------------------------------------
(* autobuf(spec, output) step by step: the verification, the output         *)
(* directory removed and made anew, the files put together, and each file   *)
(* written.  A directory is whether it exists and the files in it, each by  *)
(* its name and by whether it is left from before ("old") or written by     *)
(* this call ("new").                                                        *)

Directory(exists, entries) == [exists |-> exists, entries |-> entries]
Absent == Directory(FALSE, {})
\* what output names when autobuf is called
Outputs ==
  {Absent, Directory(TRUE, {}),
   Directory(TRUE, {<<"index.ts", "old">>, <<"notes.txt", "old">>})}
\* rm(output, {force: true, recursive: true})
rm(dir) == Absent
\* mkdir(output, {recursive: true})
mkdir(dir) == IF dir.exists THEN dir ELSE Directory(TRUE, {})
\* writeFile(join(output, file), files[file], 'utf-8')
writeFile(dir, file) ==
  Directory(dir.exists, {e \in dir.entries : e[1] # file} \cup {<<file, "new">>})

RECURSIVE WithPacketFiles(_, _, _)
\* files[`${name}Packet.ts`] = ... for the packets from the i-th on
WithPacketFiles(files, packets, i) ==
  IF i > Len(packets) THEN files
  ELSE WithPacketFiles(Put(files, packets[i].name \o "Packet.ts", JStr("packet")),
                       packets, i + 1)
\* for (const file in files): the names of the files, in the order of the keys
FilesOf(packets) ==
  Keys(Put(WithPacketFiles(JObj(<<Field("BufWrapper.ts", JStr("wrapper")),
                                  Field("Packet.ts", JStr("base"))>>), packets, 1),
           "index.ts", JStr("index")))

\* schemas of packets of several directions
DirectionSchemas ==
  {JObj(<<Field("A", PacketOf(JNum(1), JStr("incoming"), IntTree)),
          Field("B", PacketOf(JNum(2), JStr("both"), Flags)),
          Field("C", PacketOf(JNum(3), JStr("outgoing"), IntTree))>>),
   JObj(<<Field("C", PacketOf(JNum(3), JStr("outgoing"), IntTree)),
          Field("B", PacketOf(JNum(2), JStr("both"), Flags)),
          Field("A", PacketOf(JNum(1), JStr("incoming"), IntTree))>>),
   JObj(<<Field("Out", PacketOf(JNum(1), JStr("outgoing"), IntTree)),
          Field("In", PacketOf(JNum(1), JStr("incoming"), Flags))>>),
   JObj(<<Field("B", PacketOf(JNum(1), JStr("both"), IntTree)),
          Field("D", PacketOf(JNum(1), JStr("both"), Flags))>>),
   JObj(<<Field("M", PacketOf(JNum(1), JStr("both"),
                              JObj(<<Field("m", MapOf("string", Colour))>>)))>>)}
AutobufSchemas == Schemas \cup DirectionSchemas

\* a generator that does not verify
Verification_Skipped(spec) == "true"
\* if (!isValidProtocolSpec(spec))
Verification(spec) == isValidProtocolSpec(spec)

InitAutobuf ==
  /\ pc = "spec"
  /\ arg \in [spec : AutobufSchemas, output : Outputs]
  /\ bw = None
  /\ ret = [op |-> "autobuf", err |-> "none"]
  /\ loc = [dir |-> arg.output, packets |-> <<>>, names |-> <<>>, written |-> 0]

\* autobuf: Verification, and the call of rm
Verify ==
  /\ pc = "spec"
  /\ LET verified(valid) ==
           IF valid = "true" THEN pc' = "rm" /\ ret' = ret
           ELSE /\ pc' = "threw"
                /\ ret' = [ret EXCEPT !.err = IF valid = "false" THEN "Error" ELSE valid]
     IN verified(Verification(arg.spec))
  /\ UNCHANGED <<arg, bw, loc>>

\* autobuf: Setup Output Dir, rm
RemoveOutput ==
  /\ pc = "rm"
  /\ loc' = [loc EXCEPT !.dir = rm(@)]
  /\ pc' = "mkdir"
  /\ UNCHANGED <<arg, bw, ret>>

\* autobuf: Setup Output Dir, mkdir
MakeOutput ==
  /\ pc = "mkdir"
  /\ loc' = [loc EXCEPT !.dir = mkdir(@)]
  /\ pc' = "files"
  /\ UNCHANGED <<arg, bw, ret>>

\* autobuf: Stores file data, the file of each packet and index.ts
Synthesize ==
  /\ pc = "files"
  /\ LET built(files) ==
           IF files.err # "none"
           THEN pc' = "threw" /\ ret' = [ret EXCEPT !.err = files.err] /\ loc' = loc
           ELSE /\ pc' = "writing" /\ ret' = ret
                /\ loc' = [loc EXCEPT !.packets = files.files, !.names = FilesOf(files.files)]
     IN built(PacketFiles(arg.spec, 1, resetNextChar))
  /\ UNCHANGED <<arg, bw>>

\* autobuf: for (const file in files) await writeFile(...), one file
WriteFile ==
  /\ pc = "writing"
  /\ loc' = [loc EXCEPT !.dir = writeFile(@, loc.names[loc.written + 1]),
                        !.written = @ + 1]
  /\ pc' = IF loc.written + 1 = Len(loc.names) THEN "done" ELSE "writing"
  /\ UNCHANGED <<arg, bw, ret>>

NextAutobuf == Verify \/ RemoveOutput \/ MakeOutput \/ Synthesize \/ WriteFile

SpecAutobuf == InitAutobuf /\ [][NextAutobuf]_vars

----------------------------------------------------------------------------
(* Claims on the generator (SpecAutobuf) *)

\* C15: for a schema the validator does not accept, autobuf throws and does
\* nothing else: it is never past the verification, the output directory is
\* as the call found it, no packet file is put together and none is written.
C15_InvalidSchemaLeavesOutput ==
  isValidProtocolSpec(arg.spec) # "true" =>
    /\ pc \in {"spec", "threw"}
    /\ pc = "threw" => ret.err # "none"
    /\ loc.dir = arg.output
    /\ loc.packets = <<>> /\ loc.names = <<>> /\ loc.written = 0
\* autobuf has thrown on an invalid schema with files in the output directory
C15_Witness ==
  /\ pc = "threw"
  /\ isValidProtocolSpec(arg.spec) # "true"
  /\ arg.output.entries # {}

RECURSIVE Declared(_, _, _)
\* the names of the packets of the schema whose direction is among
\* directions, from the i-th packet on, in the order of the schema
Declared(spec, directions, i) ==
  IF i > Len(Keys(spec)) THEN <<>>
  ELSE (IF includes(directions, Get(Get(spec, Keys(spec)[i]), "direction"))
        THEN <<Keys(spec)[i]>> ELSE <<>>)
         \o Declared(spec, directions, i + 1)
\* the names of the packets of a registry of index.ts, in its order
RegistryNames(side) ==
  [i \in 1..Len(Registry(loc.packets, side)) |-> Registry(loc.packets, side)[i].name]
InRegistry(side, name) == \E i \in 1..Len(RegistryNames(side)) : RegistryNames(side)[i] = name

\* C16: IncomingPackets holds the packets of direction incoming or both and
\* OutgoingPackets those of direction outgoing or both, each in the order of
\* the schema; a packet of direction both is in both and every packet is in
\* one at least.
C16_RegistriesByDirection ==
  pc \in {"writing", "done"} =>
    /\ RegistryNames("Incoming") = Declared(arg.spec, {"incoming", "both"}, 1)
    /\ RegistryNames("Outgoing") = Declared(arg.spec, {"outgoing", "both"}, 1)
    /\ \A i \in 1..Len(Keys(arg.spec)) :
         /\ InRegistry("Incoming", Keys(arg.spec)[i]) \/ InRegistry("Outgoing", Keys(arg.spec)[i])
         /\ Get(Get(arg.spec, Keys(arg.spec)[i]), "direction") = JStr("both") =>
              InRegistry("Incoming", Keys(arg.spec)[i]) /\ InRegistry("Outgoing", Keys(arg.spec)[i])
\* the files are written of a schema with a packet of each direction
C16_Witness ==
  /\ pc = "done"
  /\ RegistryNames("Incoming") = <<"A", "B">>
  /\ RegistryNames("Outgoing") = <<"B", "C">>

\* C27: autobuf throws on the schemas the validator rejects and on no other:
\* for a schema the validator accepts, the write program, the read program
\* and the enum declarations of every packet are generated without an error.
C27_AcceptedSchemasSynthesize ==
  pc = "threw" => isValidProtocolSpec(arg.spec) # "true"

----------------------------------------------------------------------------
(* Two calls of autobuf in one process, on schemas and output directories   *)
(* of their own.  A call runs until it awaits: the verification and the     *)
(* request of rm; then, when rm is done, the request of mkdir; when mkdir   *)
(* is done, the whole of the synthesis and the request of the first write; *)
(* and one write after the other.  Between these the other call can run.   *)
(* The counter behind getNextChar is the one state the calls share.        *)

Invocations == {1, 2}
\* the schemas of the calls: packets with array loops, a schema whose
\* synthesis throws, and one the verification throws on
ConcurrentSchemas ==
  {JObj(<<Field("A", PacketOf(JNum(1), JStr("both"), Lists)),
          Field("B", PacketOf(JNum(2), JStr("both"), Grid))>>),
   JObj(<<Field("G", PacketOf(JNum(1), JStr("incoming"), Grid))>>),
   JObj(<<Field("L", PacketOf(JNum(1), JStr("outgoing"), Lists)),
          Field("M", PacketOf(JNum(2), JStr("both"),
                              JObj(<<Field("m", MapOf("string", Colour))>>)))>>),
   JObj(<<Field("P", PacketOf(JStr("1"), JStr("both"), Lists))>>)}
\* the names an earlier call in the process can have left the counter at
CountersLeft == {resetNextChar, getNextChar(getNextChar(resetNextChar).next).next}

InitConcurrent ==
  /\ pc = [inv \in Invocations |-> "spec"]
  /\ arg \in [Invocations -> [spec : ConcurrentSchemas, output : {Absent, Directory(TRUE, {<<"index.ts", "old">>})}]]
  /\ bw = None
  /\ ret = [inv \in Invocations |-> [op |-> "autobuf", err |-> "none"]]
  /\ \E next \in CountersLeft :
       loc = [next |-> next,
              calls |-> [inv \in Invocations |->
                           [dir |-> arg[inv].output, packets |-> <<>>, names |-> <<>>,
                            written |-> 0]]]

\* autobuf(spec, output) is called: Verification, and the request of rm
Call(inv) ==
  /\ pc[inv] = "spec"
  /\ LET verified(valid) ==
           IF valid = "true" THEN pc' = [pc EXCEPT ![inv] = "rm"] /\ ret' = ret
           ELSE /\ pc' = [pc EXCEPT ![inv] = "threw"]
                /\ ret' = [ret EXCEPT ![inv].err = IF valid = "false" THEN "Error" ELSE valid]
     IN verified(Verification(arg[inv].spec))
  /\ UNCHANGED <<arg, bw, loc>>

\* rm is done: the request of mkdir
Removed(inv) ==
  /\ pc[inv] = "rm"
  /\ loc' = [loc EXCEPT !.calls[inv].dir = rm(@)]
  /\ pc' = [pc EXCEPT ![inv] = "mkdir"]
  /\ UNCHANGED <<arg, bw, ret>>

\* mkdir is done: the files are put together, every packet of the schema in
\* one run with the counter the process has, and the first write is requested
Made(inv) ==
  /\ pc[inv] = "mkdir"
  /\ LET built(files) ==
           IF files.err # "none"
           THEN /\ pc' = [pc EXCEPT ![inv] = "threw"]
                /\ ret' = [ret EXCEPT ![inv].err = files.err]
                /\ loc' = [loc EXCEPT !.next = files.next, !.calls[inv].dir = mkdir(@)]
           ELSE /\ pc' = [pc EXCEPT ![inv] = "writing"]
                /\ ret' = ret
                /\ loc' = [loc EXCEPT !.next = files.next,
                                      !.calls[inv].dir = mkdir(@),
                                      !.calls[inv].packets = files.files,
                                      !.calls[inv].names = FilesOf(files.files)]
     IN built(PacketFiles(arg[inv].spec, 1, loc.next))
  /\ UNCHANGED <<arg, bw>>

\* a write is done: the request of the next, or the return of autobuf
Written(inv) ==
  /\ pc[inv] = "writing"
  /\ loc' = [loc EXCEPT !.calls[inv].dir =
                          writeFile(@, loc.calls[inv].names[loc.calls[inv].written + 1]),
                        !.calls[inv].written = @ + 1]
  /\ pc' = [pc EXCEPT ![inv] = IF loc.calls[inv].written + 1 = Len(loc.calls[inv].names)
                               THEN "done" ELSE "writing"]
  /\ UNCHANGED <<arg, bw, ret>>

NextConcurrent ==
  \E inv \in Invocations : Call(inv) \/ Removed(inv) \/ Made(inv) \/ Written(inv)

SpecConcurrent == InitConcurrent /\ [][NextConcurrent]_vars

RECURSIVE WriteAll(_, _, _)
\* the directory after the writes of the files from the i-th on
WriteAll(dir, names, i) ==
  IF i > Len(names) THEN dir ELSE WriteAll(writeFile(dir, names[i]), names, i + 1)
\* what the call makes when it is the only one the process ever runs: the
\* error it throws, the packet files it puts together, and the directory it
\* leaves
AloneCall(inv) ==
  LET files == PacketFiles(arg[inv].spec, 1, resetNextChar)
      valid == Verification(arg[inv].spec)
  IN IF valid # "true"
     THEN [err |-> IF valid = "false" THEN "Error" ELSE valid, packets |-> <<>>,
           dir |-> arg[inv].output]
     ELSE IF files.err # "none"
     THEN [err |-> files.err, packets |-> <<>>, dir |-> mkdir(rm(arg[inv].output))]
     ELSE [err |-> "none", packets |-> files.files,
           dir |-> WriteAll(mkdir(rm(arg[inv].output)), FilesOf(files.files), 1)]

\* C30: each of two calls of autobuf that run interleaved at their awaits
\* puts together the packet files, throws the error and leaves the directory
\* it does when it is the only call: no call sees the name counter as the
\* other, or a call before them, has left it.
C30_ConcurrentCallsAsAlone ==
  \A inv \in Invocations :
    /\ pc[inv] \in {"writing", "done"} =>
         /\ AloneCall(inv).err = "none"
         /\ loc.calls[inv].packets = AloneCall(inv).packets
    /\ pc[inv] = "done" => loc.calls[inv].dir = AloneCall(inv).dir
    /\ pc[inv] = "threw" =>
         /\ ret[inv].err = AloneCall(inv).err
         /\ loc.calls[inv].dir = AloneCall(inv).dir
\* both calls are done, on schemas that differ and whose first packets have
\* two array loops in the write program, and the counter is left advanced
C30_Witness ==
  /\ pc = [inv \in Invocations |-> "done"]
  /\ loc.next # resetNextChar
  /\ \A inv \in Invocations :
       /\ Len(BindingsOf(loc.calls[inv].packets[1].write, 1)) = 2
       /\ loc.calls[inv].written = Len(loc.calls[inv].names)
  /\ arg[1].spec # arg[2].spec

----------------------------------------------------------------------------
(* The registries at work on any bytes: after autobuf has generated the     *)
(* files, a caller reads buffers and writes packets through one side of     *)
(* index.ts: one call, then one more.  ret is the calls made so far, each  *)
(* with what it was given and what it left.                                 *)

EnumSchema == JObj(<<Field("E", PacketOf(JNum(1), JStr("both"), JObj(<<Field("e", Colour)>>)))>>)
\* three packets of one id: the incoming registry lists First and Second, the
\* outgoing registry Zero and First
TwinSchema ==
  JObj(<<Field("Zero", PacketOf(JNum(7), JStr("outgoing"), JObj(<<Field("h", JStr("short"))>>))),
         Field("First", PacketOf(JNum(7), JStr("both"), JObj(<<Field("b", JStr("boolean"))>>))),
         Field("Second", PacketOf(JNum(7), JStr("incoming"), JObj(<<Field("x", JStr("varInt"))>>)))>>)
DispatchSchemas ==
  {EnumSchema,
   JObj(<<Field("In", PacketOf(JNum(1), JStr("incoming"), JObj(<<Field("x", JStr("varInt"))>>))),
          Field("Out", PacketOf(JNum(2), JStr("outgoing"), Flags))>>),
   JObj(<<Field("P", PacketOf(JNum(300), JStr("both"), JObj(<<Field("b", JStr("boolean"))>>)))>>),
   TwinSchema}
\* the ids the buffers lead with, and what follows the id
DispatchIds == {1, 2, 7, 300}
DispatchBodies == {<<>>, <<1>>, <<0, 0>>, <<0, 1>>, <<0, 5>>, <<0, 0, 0, 7, 1>>}
DispatchBuffers ==
  {Varint(NumOf(id)) \o body : id \in DispatchIds, body \in DispatchBodies}
    \cup {<<>>, <<128>>}

\* a call of read<side>Packet or write<side>Packet: what it was given (bytes;
\* id and data), what it left (err; id and data; bytes), and how far the
\* wrapper of a read has got in the buffer
DispatchCall(op, err, id, data, bytes, read) ==
  [op |-> op, err |-> err, id |-> id, data |-> data, bytes |-> bytes, read |-> read]
\* read<side>Packet(bytes) on the registries of the files
DecodeCall(files, side, bytes) ==
  LET called(r) == DispatchCall("read", r.err, r.id, r.data, bytes, r.bw.offset)
  IN called(readPacket(files, side, bytes))
\* write<side>Packet(id, data) on the registries of the files
EncodeCall(files, side, id, data) ==
  LET called(r) == DispatchCall("write", r.err, id, data, r.bw.buffer, 0)
  IN called(writePacket(files, side, id, data))

InitDispatch ==
  /\ pc = "spec"
  /\ arg \in [spec : DispatchSchemas, side : {"Incoming", "Outgoing"}]
  /\ bw = None
  /\ ret = <<>>
  /\ loc = [next |-> resetNextChar, files |-> <<>>]

\* read<side>Packet(data), on any bytes
Decode ==
  /\ pc \in {"generated", "called"}
  /\ \E bytes \in DispatchBuffers : ret' = Append(ret, DecodeCall(loc.files, arg.side, bytes))
  /\ pc' = IF pc = "generated" THEN "called" ELSE "again"
  /\ UNCHANGED <<arg, bw, loc>>

\* write<side>Packet(id, data), for a packet of the schema and a value of it
Encode ==
  /\ pc \in {"generated", "called"}
  /\ \E n \in 1..Len(Keys(arg.spec)) :
       \E data \in ValuesOf(Get(Get(arg.spec, Keys(arg.spec)[n]), "data")) :
         ret' = Append(ret, EncodeCall(loc.files, arg.side,
                                       Get(Get(arg.spec, Keys(arg.spec)[n]), "id"), data))
  /\ pc' = IF pc = "generated" THEN "called" ELSE "again"
  /\ UNCHANGED <<arg, bw, loc>>

NextDispatch == Generate \/ Decode \/ Encode

SpecDispatch == InitDispatch /\ [][NextDispatch]_vars

----------------------------------------------------------------------------
(* Claims on the registries (SpecDispatch) *)

\* the packets of the schema that the side of the caller lists have the id
Listed(id) ==
  \E i \in 1..Len(Keys(arg.spec)) :
    /\ Get(Get(arg.spec, Keys(arg.spec)[i]), "id") = JNum(id)
    /\ Get(Get(arg.spec, Keys(arg.spec)[i]), "direction")
         \in {JStr("both"), JStr(IF arg.side = "Incoming" THEN "incoming" ELSE "outgoing")}
\* the bytes lead with the varint of the id
LeadsWith(bytes, id) ==
  /\ Len(Varint(NumOf(id))) <= Len(bytes)
  /\ SubSeq(bytes, 1, Len(Varint(NumOf(id)))) = Varint(NumOf(id))
\* the call the caller has made, made first on the registries as generated
AsFirstCall(call) ==
  IF call.op = "read"
  THEN DecodeCall(PacketFiles(arg.spec, 1, resetNextChar).files, arg.side, call.bytes)
  ELSE EncodeCall(PacketFiles(arg.spec, 1, resetNextChar).files, arg.side, call.id, call.data)

\* C17: a read of bytes that lead with the varint of an id no packet of the
\* registry has throws an Error with the wrapper just past the id, no byte of
\* the body read; the files stay as generated; and the call made after it
\* leaves what it leaves when made first.
C17_UnknownIdLeavesNoTrace ==
  \A k \in 1..Len(ret) : \A id \in DispatchIds :
    (ret[k].op = "read" /\ LeadsWith(ret[k].bytes, id) /\ ~Listed(id)) =>
      /\ ret[k].err = "Error"
      /\ ret[k].read = Len(Varint(NumOf(id)))
      /\ ret[k].id = JUndefined /\ ret[k].data = JUndefined
      /\ loc.files = PacketFiles(arg.spec, 1, resetNextChar).files
      /\ k < Len(ret) => ret[k + 1] = AsFirstCall(ret[k + 1])
\* after a read of an unknown id with a body behind it, a read returns a packet
C17_Witness ==
  /\ Len(ret) = 2
  /\ \E id \in DispatchIds :
       /\ LeadsWith(ret[1].bytes, id) /\ ~Listed(id)
       /\ Len(ret[1].bytes) > Len(Varint(NumOf(id)))
  /\ ret[1].op = "read" /\ ret[1].err = "Error"
  /\ ret[2].op = "read" /\ ret[2].err = "none" /\ ret[2].data # JUndefined

\* C19: a read of a packet whose enum field holds an ordinal that is no index
\* of the values of the enum throws; it returns no record.
C19_EnumOrdinalOutOfRange ==
  \A k \in 1..Len(ret) :
    (/\ arg.spec = EnumSchema /\ ret[k].op = "read"
     /\ LeadsWith(ret[k].bytes, 1) /\ Len(ret[k].bytes) >= 3
     /\ UInt16At(ret[k].bytes, 1) >= Len(Get(Colour, "values").items)) =>
      ret[k].err # "none"

\* the positions in the schema of the packets of the id that the side of the
\* caller lists
ListedAt(id) ==
  {i \in 1..Len(Keys(arg.spec)) :
     /\ Get(Get(arg.spec, Keys(arg.spec)[i]), "id") = JNum(id)
     /\ Get(Get(arg.spec, Keys(arg.spec)[i]), "direction")
          \in {JStr("both"), JStr(IF arg.side = "Incoming" THEN "incoming" ELSE "outgoing")}}
\* the file of the packet of the id that the schema defines first among them
FirstDefined(id) ==
  LET first == CHOOSE i \in ListedAt(id) : \A j \in ListedAt(id) : i <= j
  IN loc.files[CHOOSE n \in 1..Len(loc.files) : loc.files[n].name = Keys(arg.spec)[first]]
\* the wrapper of a read once the id is read
PastId(bytes) == BufReadValue("readVarInt", BufWrapper(bytes, FALSE)).bw

\* C24: when the registry of the caller lists several packets of one id, a
\* read of bytes that lead with the id returns what the read program of the
\* packet the schema defines first among them makes of the bytes, and a write
\* by the id leaves the bytes of the write program of that same packet.
C24_FirstDefinedWins ==
  \A k \in 1..Len(ret) : \A id \in DispatchIds :
    Cardinality(ListedAt(id)) > 1 =>
      /\ (ret[k].op = "read" /\ LeadsWith(ret[k].bytes, id)) =>
           /\ ret[k].err = PacketRead(FirstDefined(id), PastId(ret[k].bytes)).err
           /\ ret[k].err = "none" =>
                /\ ret[k].id = JNum(id)
                /\ ret[k].data = PacketRead(FirstDefined(id), PastId(ret[k].bytes)).data
      /\ (ret[k].op = "write" /\ ret[k].id = JNum(id)) =>
           /\ ret[k].err = PacketWrite(FirstDefined(id), ret[k].data).err
           /\ ret[k].bytes = PacketWrite(FirstDefined(id), ret[k].data).bw.buffer
\* on the outgoing side of the three packets of one id, a read has returned
\* the record of Zero, and a write of a record of First has left the two
\* bytes of a short behind the id
C24_Witness ==
  /\ arg.spec = TwinSchema /\ arg.side = "Outgoing" /\ Len(ret) = 2
  /\ ret[1].op = "read" /\ ret[1].err = "none" /\ Has(ret[1].data, "h")
  /\ ret[2].op = "write" /\ ret[2].err = "none" /\ Has(ret[2].data, "b")
  /\ Len(ret[2].bytes) = 3

----------------------------------------------------------------------------
(* Claims on the descriptors the validator accepts (SpecValidate) *)

\* the schema of one packet whose field tree has the one field a, of the
\* descriptor d
FieldSchema(d) ==
  JObj(<<Field("P", PacketOf(JNum(0), JStr("incoming"), JObj(<<Field("a", d)>>)))>>)
\* the statements the generator emits for the field tree {a: d}
WriteProgram(d) == genWriteCode(JObj(<<Field("a", d)>>), JArr(<<>>), resetNextChar)
ReadProgram(d) == genReadCode(JObj(<<Field("a", d)>>), <<>>)

\* C11: a field whose type is a scalar kind of the data model, UUID and blob
\* included, is accepted, written as the bare name or as {type: name}; the
\* validator gives the two forms the same verdict; and the programs
\* synthesized for the field call one write method and one read method of the
\* buffer wrapper, on the field.
C11_ScalarKindsAccepted ==
  \A n \in ScalarKindNames :
    (pc # "spec" /\ arg \in {FieldSchema(JStr(n)), FieldSchema(Typed(n, <<>>))}) =>
      /\ Accepted
      /\ isValidProtocolSpec(FieldSchema(JStr(n)))
           = isValidProtocolSpec(FieldSchema(Typed(n, <<>>)))
      /\ \E method \in WriteMethods :
           \A d \in {JStr(n), Typed(n, <<>>)} :
             WriteVisits(WriteProgram(d).lines, 1, Bind(<<>>, "data", "value", <<>>))
               = <<Visit("field", WriteKind(method), <<"a">>)>>
      /\ \E method \in ReadMethods :
           \A d \in {JStr(n), Typed(n, <<>>)} :
             ReadVisits(ReadProgram(d).lines, 1, <<>>)
               = <<Visit("field", ReadKind(method), <<"a">>)>>

\* C12: an accepted descriptor of type array carries data; an accepted
\* descriptor of type object carries data, or carries keyType and valueType
\* with keyType the name of a scalar kind.
C12_CompositeCarriesItsFields ==
  \A d \in ArrayDescriptors \cup ObjectDescriptors :
    (Accepted /\ arg = FieldSchema(d)) =>
      /\ Get(d, "type") = JStr("array") => Has(d, "data")
      /\ Get(d, "type") = JStr("object") =>
           \/ Has(d, "data")
           \/ /\ Has(d, "keyType") /\ Has(d, "valueType")
              /\ includes(ScalarKindNames, Get(d, "keyType"))

\* C13: an accepted descriptor of type enum has a name that is a string and
\* values that are a non-empty array of strings.
C13_EnumCarriesNameAndValues ==
  \A d \in EnumDescriptors :
    (Accepted /\ arg = FieldSchema(d)) =>
      /\ Get(d, "name").t = "string"
      /\ IsStringList(Get(d, "values"))
      /\ Get(d, "values").items # <<>>

RECURSIVE DescriptorsOfTree(_), DescriptorsUnder(_)
\* the field descriptors reachable from a field tree: those of its fields and
\* those under them
DescriptorsOfTree(tree) ==
  IF tree.t \notin {"object", "array"} THEN {}
  ELSE UNION {{Get(tree, Keys(tree)[i])} \cup DescriptorsUnder(Get(tree, Keys(tree)[i])) :
                i \in 1..Len(Keys(tree))}
\* the field descriptors under a descriptor: the element type of an array,
\* or the fields of its element records; the fields of a record; the value
\* type of a map
DescriptorsUnder(d) ==
  IF ~IsMapping(d) THEN {}
  ELSE CASE Get(d, "type") = JStr("array") /\ Has(d, "data") ->
              IF Get(d, "data").t \in {"object", "array"}
              THEN DescriptorsOfTree(Get(d, "data"))
              ELSE {Get(d, "data")}
         [] Get(d, "type") = JStr("object") /\ Truthy(Get(d, "data")) ->
              DescriptorsOfTree(Get(d, "data"))
         [] Get(d, "type") = JStr("object") /\ Has(d, "valueType") ->
              {Get(d, "valueType")} \cup DescriptorsUnder(Get(d, "valueType"))
         [] OTHER -> {}
\* the validator recognizes the descriptor as the descriptor of a field
Recognized(d) == isValidItem(d)

====
